---- MODULE Spec2Model ----
(***************************************************************************)
(* Constructive solid geometry for Monte Carlo transport: surfaces, the    *)
(* region algebra (core, surface-table form of src/src/region.rs and the   *)
(* scripting form of src/src/region_python.rs), containment and            *)
(* bounding-box inference.                                                 *)
(***************************************************************************)
EXTENDS Integers, Sequences, FiniteSets, TLC

VARIABLES
    api,           \* "core": Region over a surface table; "py": PyRegion / PyHalfspace
    surfaces,      \* core: HashMap<usize, Surface>; py: the PySurface objects, by handle
    sphere_order,  \* the order in which surfaces.values() yields the table's spheres
    point,         \* the query point (x, y, z)
    regions,       \* the regions built so far, in creation order
    last,          \* the last query and what it returned
    universe,      \* a Universe: universe_id, name, cells (HashMap<u32, Cell>)
    added          \* the cells passed to add_cell so far, in call order

vars == <<api, surfaces, sphere_order, point, regions, last, universe, added>>

(***************************************************************************)
(* Bounds of the model.                                                    *)
(***************************************************************************)
MaxCoord == 1
MaxOperands == 2
MaxRegions == 3
MaxCellId == 2
MaxAdds == 2

Coords == (-MaxCoord)..MaxCoord
\* every surface a region is built over here has its centre or axis in the
\* plane z = 0 or is parallel to z: the query points are the grid of that plane
Points == Coords \X Coords \X {0}

(***************************************************************************)
(* f64 values of bounding boxes.  <<0, n>> is the finite value n/2 (every  *)
(* input is an integer, so corners are integers and midpoints are exact    *)
(* halves); <<-1, 0>> and <<1, 0>> are the infinities; <<2, 0>> is NaN.    *)
(***************************************************************************)
NEG_INFINITY == <<-1, 0>>
INFINITY == <<1, 0>>
NAN == <<2, 0>>
F(n) == <<0, 2 * n>>

IsNan(x) == x[1] = 2
FLt(x, y) ==
    /\ ~IsNan(x) /\ ~IsNan(y)
    /\ \/ x[1] < y[1]
       \/ x[1] = 0 /\ y[1] = 0 /\ x[2] < y[2]
FGt(x, y) == FLt(y, x)
FLe(x, y) == ~IsNan(x) /\ ~IsNan(y) /\ ~FLt(y, x)
\* f64::max / f64::min: the other operand when one is NaN
FMax(x, y) == IF IsNan(x) THEN y ELSE IF IsNan(y) THEN x ELSE IF FLt(x, y) THEN y ELSE x
FMin(x, y) == IF IsNan(x) THEN y ELSE IF IsNan(y) THEN x ELSE IF FLt(y, x) THEN y ELSE x
FNeg(x) == IF IsNan(x) THEN NAN ELSE <<-x[1], -x[2]>>
FAdd(x, y) ==
    IF IsNan(x) \/ IsNan(y) THEN NAN
    ELSE IF x[1] = 0 /\ y[1] = 0 THEN <<0, x[2] + y[2]>>
    ELSE IF x[1] = 0 THEN y
    ELSE IF y[1] = 0 THEN x
    ELSE IF x[1] = y[1] THEN x
    ELSE NAN
FSub(x, y) == FAdd(x, FNeg(y))
\* 0.5 * x and x / 2.0 (x is a sum of two integer corners here, so x[2] is a multiple of 4)
FHalf(x) == IF x[1] = 0 THEN <<0, x[2] \div 2>> ELSE x
\* 2.0 * x
FTwice(x) == IF x[1] = 0 THEN <<0, 2 * x[2]>> ELSE x

(***************************************************************************)
(* Option and Result values.                                               *)
(***************************************************************************)
Some(x) == [some |-> TRUE, value |-> x]
None == [some |-> FALSE]
Ok(x) == [ok |-> TRUE, value |-> x]
Err(e) == [ok |-> FALSE, error |-> e]

(***************************************************************************)
(* Text: a &str is the sequence of its characters.                         *)
(***************************************************************************)
UpperCaseLetters ==
    <<"A", "B", "C", "D", "E", "F", "G", "H", "I", "J", "K", "L", "M",
      "N", "O", "P", "Q", "R", "S", "T", "U", "V", "W", "X", "Y", "Z">>
LowerCaseLetters ==
    <<"a", "b", "c", "d", "e", "f", "g", "h", "i", "j", "k", "l", "m",
      "n", "o", "p", "q", "r", "s", "t", "u", "v", "w", "x", "y", "z">>
LowerCaseOf ==
    [c \in {UpperCaseLetters[k] : k \in 1..Len(UpperCaseLetters)} |->
        LowerCaseLetters[CHOOSE k \in 1..Len(UpperCaseLetters) : UpperCaseLetters[k] = c]]
char_to_lowercase(c) == IF c \in DOMAIN LowerCaseOf THEN LowerCaseOf[c] ELSE c
to_lowercase(s) == [n \in 1..Len(s) |-> char_to_lowercase(s[n])]

Str_transmission == <<"t", "r", "a", "n", "s", "m", "i", "s", "s", "i", "o", "n">>
Str_vacuum == <<"v", "a", "c", "u", "u", "m">>
Str_boundary_type_error == "boundary_type must be 'transmission' or 'vacuum'"

(***************************************************************************)
(* Surfaces (src/src/surface.rs).                                          *)
(***************************************************************************)
\* a default boundary type of Transmission
BoundaryType_default_transmission == "Transmission"
BoundaryType_default == "Vacuum"

\* from_str_option without the to_lowercase
from_str_option_case_sensitive(s) ==
    IF s = Str_transmission THEN Some("Transmission")
    ELSE IF s = Str_vacuum THEN Some("Vacuum")
    ELSE None
from_str_option(s) ==
    LET lower == to_lowercase(s)
    IN  IF lower = Str_transmission THEN Some("Transmission")
        ELSE IF lower = Str_vacuum THEN Some("Vacuum")
        ELSE None

\* a setter that rebuilds the surface as a plane through the origin
set_boundary_type_rebuilding(self, boundary_type) ==
    [surface_id |-> self.surface_id,
     kind |-> [tag |-> "Plane", a |-> 1, b |-> 0, c |-> 0, d |-> 0],
     boundary_type |-> boundary_type]
set_boundary_type(self, boundary_type) == [self EXCEPT !.boundary_type = boundary_type]
Surface_boundary_type(self) == self.boundary_type

unwrap_or_default(boundary_type) ==
    IF boundary_type = "None" THEN BoundaryType_default ELSE boundary_type

new_plane(a, b, c, d, surface_id, boundary_type) ==
    [surface_id |-> surface_id,
     kind |-> [tag |-> "Plane", a |-> a, b |-> b, c |-> c, d |-> d],
     boundary_type |-> unwrap_or_default(boundary_type)]

new_sphere(x0, y0, z0, radius, surface_id, boundary_type) ==
    [surface_id |-> surface_id,
     kind |-> [tag |-> "Sphere", x0 |-> x0, y0 |-> y0, z0 |-> z0, radius |-> radius],
     boundary_type |-> unwrap_or_default(boundary_type)]

new_cylinder(axis, origin, radius, surface_id, boundary_type) ==
    [surface_id |-> surface_id,
     kind |-> [tag |-> "Cylinder", axis |-> axis, origin |-> origin, radius |-> radius],
     boundary_type |-> unwrap_or_default(boundary_type)]

x_plane(x0, surface_id, boundary_type) == new_plane(1, 0, 0, x0, surface_id, boundary_type)
y_plane(y0, surface_id, boundary_type) == new_plane(0, 1, 0, y0, surface_id, boundary_type)
z_plane(z0, surface_id, boundary_type) == new_plane(0, 0, 1, z0, surface_id, boundary_type)
z_cylinder(x0, y0, radius, surface_id, boundary_type) ==
    new_cylinder(<<0, 0, 1>>, <<x0, y0, 0>>, radius, surface_id, boundary_type)

sphere(x0, y0, z0, radius, surface_id, boundary_type) ==
    new_sphere(x0, y0, z0, radius, surface_id, boundary_type)
cylinder(x0, y0, z0, axis_x, axis_y, axis_z, radius, surface_id, boundary_type) ==
    new_cylinder(<<axis_x, axis_y, axis_z>>, <<x0, y0, z0>>, radius, surface_id, boundary_type)

\* the `let boundary = match boundary_type { Some(s) => Some(from_str_option(s).ok_or(..)?),
\* None => None }` of the text-accepting constructors: Ok(Option<BoundaryType>) or Err
boundary_of_text(boundary_type) ==
    IF boundary_type.some THEN
        LET parsed == from_str_option(boundary_type.value)
        IN  IF parsed.some THEN Ok(parsed.value) ELSE Err(Str_boundary_type_error)
    ELSE Ok("None")

x_plane_str(x0, surface_id, boundary_type) ==
    LET bt == boundary_of_text(boundary_type)
    IN  IF bt.ok THEN Ok(x_plane(x0, surface_id, bt.value)) ELSE bt
y_plane_str(y0, surface_id, boundary_type) ==
    LET bt == boundary_of_text(boundary_type)
    IN  IF bt.ok THEN Ok(y_plane(y0, surface_id, bt.value)) ELSE bt
z_plane_str(z0, surface_id, boundary_type) ==
    LET bt == boundary_of_text(boundary_type)
    IN  IF bt.ok THEN Ok(z_plane(z0, surface_id, bt.value)) ELSE bt
sphere_str(x0, y0, z0, radius, surface_id, boundary_type) ==
    LET bt == boundary_of_text(boundary_type)
    IN  IF bt.ok THEN Ok(sphere(x0, y0, z0, radius, surface_id, bt.value)) ELSE bt
cylinder_str(x0, y0, z0, axis_x, axis_y, axis_z, radius, surface_id, boundary_type) ==
    LET bt == boundary_of_text(boundary_type)
    IN  IF bt.ok
        THEN Ok(cylinder(x0, y0, z0, axis_x, axis_y, axis_z, radius, surface_id, bt.value))
        ELSE bt
z_cylinder_str(x0, y0, radius, surface_id, boundary_type) ==
    LET bt == boundary_of_text(boundary_type)
    IN  IF bt.ok THEN Ok(z_cylinder(x0, y0, radius, surface_id, bt.value)) ELSE bt
plane_str(a, b, c, d, surface_id, boundary_type) ==
    LET bt == boundary_of_text(boundary_type)
    IN  IF bt.ok THEN Ok(new_plane(a, b, c, d, surface_id, bt.value)) ELSE bt

(***************************************************************************)
(* The surface functions of the scripting API (src/src/surface_python.rs): *)
(* each matches the lower-cased text itself and builds the Surface.        *)
(***************************************************************************)
\* `match boundary_type { Some(bt) => match bt.to_lowercase().as_str() {..}, None => default }`
py_boundary(boundary_type) ==
    IF boundary_type.some THEN
        LET lower == to_lowercase(boundary_type.value)
        IN  IF lower = Str_transmission THEN Ok("Transmission")
            ELSE IF lower = Str_vacuum THEN Ok("Vacuum")
            ELSE Err(Str_boundary_type_error)
    ELSE Ok(BoundaryType_default)
unwrap_or(option, default) == IF option.some THEN option.value ELSE default
PySurface(surface_id, kind, boundary_type) ==
    LET bt == py_boundary(boundary_type)
    IN  IF bt.ok
        THEN Ok([surface_id |-> surface_id, kind |-> kind, boundary_type |-> bt.value])
        ELSE bt

\* the boundary_type setter of a PySurface: the result and the surface afterwards
PySurface_set_boundary_type(self, boundary_type) ==
    LET lower == to_lowercase(boundary_type)
    IN  IF lower = Str_transmission
        THEN [result |-> Ok("()"), self |-> set_boundary_type(self, "Transmission")]
        ELSE IF lower = Str_vacuum
        THEN [result |-> Ok("()"), self |-> set_boundary_type(self, "Vacuum")]
        ELSE [result |-> Err(Str_boundary_type_error), self |-> self]

XPlane(x0, surface_id, boundary_type) ==
    PySurface(surface_id, [tag |-> "Plane", a |-> 1, b |-> 0, c |-> 0, d |-> x0], boundary_type)
YPlane(y0, surface_id, boundary_type) ==
    PySurface(surface_id, [tag |-> "Plane", a |-> 0, b |-> 1, c |-> 0, d |-> y0], boundary_type)
ZPlane(z0, surface_id, boundary_type) ==
    PySurface(surface_id, [tag |-> "Plane", a |-> 0, b |-> 0, c |-> 1, d |-> z0], boundary_type)
ZCylinder(x0, y0, r, surface_id, boundary_type) ==
    PySurface(surface_id,
              [tag |-> "Cylinder", axis |-> <<0, 0, 1>>, origin |-> <<x0, y0, 0>>, radius |-> r],
              boundary_type)
Sphere(x0, y0, z0, r, surface_id, boundary_type) ==
    PySurface(unwrap_or(surface_id, 0),
              [tag |-> "Sphere", x0 |-> unwrap_or(x0, 0), y0 |-> unwrap_or(y0, 0),
               z0 |-> unwrap_or(z0, 0), radius |-> r],
              boundary_type)
Cylinder(axis, origin, r, surface_id, boundary_type) ==
    PySurface(unwrap_or(surface_id, 0),
              [tag |-> "Cylinder", axis |-> axis, origin |-> origin, radius |-> r],
              boundary_type)
Plane(a, b, c, d, surface_id, boundary_type) ==
    PySurface(unwrap_or(surface_id, 0), [tag |-> "Plane", a |-> a, b |-> b, c |-> c, d |-> d],
              boundary_type)

\* An integer with the sign of q.sqrt() - radius, for an integer q >= 0:
\* the square root is monotone, so for radius > 0 it is the sign of q - radius^2.
sqrt_minus(q, radius) ==
    IF radius > 0 THEN q - radius * radius
    ELSE IF q = 0 /\ radius = 0 THEN 0
    ELSE 1

\* Surface::evaluate, up to a positive factor: callers only compare it with 0.0
evaluate(self, pt) ==
    LET k == self.kind IN
    IF k.tag = "Plane" THEN k.a * pt[1] + k.b * pt[2] + k.c * pt[3] - k.d
    ELSE IF k.tag = "Sphere" THEN
        LET dx == pt[1] - k.x0
            dy == pt[2] - k.y0
            dz == pt[3] - k.z0
        IN sqrt_minus(dx * dx + dy * dy + dz * dz, k.radius)
    ELSE
        LET v == <<pt[1] - k.origin[1], pt[2] - k.origin[2], pt[3] - k.origin[3]>>
            dot == v[1] * k.axis[1] + v[2] * k.axis[2] + v[3] * k.axis[3]
            d == <<v[1] - dot * k.axis[1], v[2] - dot * k.axis[2], v[3] - dot * k.axis[3]>>
        IN sqrt_minus(d[1] * d[1] + d[2] * d[2] + d[3] * d[3], k.radius)

(***************************************************************************)
(* BoundingBox (src/src/bounding_box.rs).                                  *)
(***************************************************************************)
BoundingBox_new(lower_left_corner, upper_right_corner) ==
    [lower_left_corner |-> lower_left_corner,
     upper_right_corner |-> upper_right_corner,
     center |-> [i \in 1..3 |-> FHalf(FAdd(lower_left_corner[i], upper_right_corner[i]))],
     width |-> [i \in 1..3 |-> FSub(upper_right_corner[i], lower_left_corner[i])]]

(***************************************************************************)
(* Core regions (src/src/region.rs).  A RegionExpr is                      *)
(*   <<"Halfspace", <<"Above" | "Below", id>>>>, <<"Union", a, b>>,        *)
(*   <<"Intersection", a, b>> or <<"Complement", inner>>.                  *)
(***************************************************************************)
new_from_halfspace(halfspace_type) == [expr |-> <<"Halfspace", halfspace_type>>]
intersection(self, other) == [expr |-> <<"Intersection", self.expr, other.expr>>]
union(self, other) == [expr |-> <<"Union", self.expr, other.expr>>]
\* a complement that treats the complement of a complement as a no-op
complement_idempotent(self) ==
    IF self.expr[1] = "Complement" THEN self ELSE [expr |-> <<"Complement", self.expr>>]
complement(self) == [expr |-> <<"Complement", self.expr>>]

\* evaluate_contains with the Union arm joined by && instead of ||
RECURSIVE evaluate_contains_union_as_and(_, _, _)
evaluate_contains_union_as_and(expr, pt, surfs) ==
    IF expr[1] = "Halfspace" THEN
        LET hs == expr[2] IN
        IF hs[1] = "Above" THEN
            IF hs[2] \in DOMAIN surfs THEN evaluate(surfs[hs[2]], pt) > 0 ELSE FALSE
        ELSE
            IF hs[2] \in DOMAIN surfs THEN evaluate(surfs[hs[2]], pt) < 0 ELSE FALSE
    ELSE IF expr[1] = "Union" THEN
        evaluate_contains_union_as_and(expr[2], pt, surfs)
            /\ evaluate_contains_union_as_and(expr[3], pt, surfs)
    ELSE IF expr[1] = "Intersection" THEN
        evaluate_contains_union_as_and(expr[2], pt, surfs)
            /\ evaluate_contains_union_as_and(expr[3], pt, surfs)
    ELSE ~evaluate_contains_union_as_and(expr[2], pt, surfs)

\* evaluate_contains with a closed Above halfspace (>= 0.0)
RECURSIVE evaluate_contains_closed_above(_, _, _)
evaluate_contains_closed_above(expr, pt, surfs) ==
    IF expr[1] = "Halfspace" THEN
        LET hs == expr[2] IN
        IF hs[1] = "Above" THEN
            IF hs[2] \in DOMAIN surfs THEN evaluate(surfs[hs[2]], pt) >= 0 ELSE FALSE
        ELSE
            IF hs[2] \in DOMAIN surfs THEN evaluate(surfs[hs[2]], pt) < 0 ELSE FALSE
    ELSE IF expr[1] = "Union" THEN
        evaluate_contains_closed_above(expr[2], pt, surfs)
            \/ evaluate_contains_closed_above(expr[3], pt, surfs)
    ELSE IF expr[1] = "Intersection" THEN
        evaluate_contains_closed_above(expr[2], pt, surfs)
            /\ evaluate_contains_closed_above(expr[3], pt, surfs)
    ELSE ~evaluate_contains_closed_above(expr[2], pt, surfs)

\* evaluate_contains with the Union arm dropping its right operand
RECURSIVE evaluate_contains_union_left_only(_, _, _)
evaluate_contains_union_left_only(expr, pt, surfs) ==
    IF expr[1] = "Halfspace" THEN
        LET hs == expr[2] IN
        IF hs[1] = "Above" THEN
            IF hs[2] \in DOMAIN surfs THEN evaluate(surfs[hs[2]], pt) > 0 ELSE FALSE
        ELSE
            IF hs[2] \in DOMAIN surfs THEN evaluate(surfs[hs[2]], pt) < 0 ELSE FALSE
    ELSE IF expr[1] = "Union" THEN
        evaluate_contains_union_left_only(expr[2], pt, surfs)
    ELSE IF expr[1] = "Intersection" THEN
        evaluate_contains_union_left_only(expr[2], pt, surfs)
            /\ evaluate_contains_union_left_only(expr[3], pt, surfs)
    ELSE ~evaluate_contains_union_left_only(expr[2], pt, surfs)

\* an evaluate_contains for which a halfspace of a surface missing from the table is all of space
RECURSIVE evaluate_contains_absent_as_space(_, _, _)
evaluate_contains_absent_as_space(expr, pt, surfs) ==
    IF expr[1] = "Halfspace" THEN
        LET hs == expr[2] IN
        IF hs[1] = "Above" THEN
            IF hs[2] \in DOMAIN surfs THEN evaluate(surfs[hs[2]], pt) > 0 ELSE TRUE
        ELSE
            IF hs[2] \in DOMAIN surfs THEN evaluate(surfs[hs[2]], pt) < 0 ELSE TRUE
    ELSE IF expr[1] = "Union" THEN
        evaluate_contains_absent_as_space(expr[2], pt, surfs)
            \/ evaluate_contains_absent_as_space(expr[3], pt, surfs)
    ELSE IF expr[1] = "Intersection" THEN
        evaluate_contains_absent_as_space(expr[2], pt, surfs)
            /\ evaluate_contains_absent_as_space(expr[3], pt, surfs)
    ELSE ~evaluate_contains_absent_as_space(expr[2], pt, surfs)

RECURSIVE evaluate_contains(_, _, _)
evaluate_contains(expr, pt, surfs) ==
    IF expr[1] = "Halfspace" THEN
        LET hs == expr[2] IN
        IF hs[1] = "Above" THEN
            IF hs[2] \in DOMAIN surfs THEN evaluate(surfs[hs[2]], pt) > 0 ELSE FALSE
        ELSE
            IF hs[2] \in DOMAIN surfs THEN evaluate(surfs[hs[2]], pt) < 0 ELSE FALSE
    ELSE IF expr[1] = "Union" THEN
        evaluate_contains(expr[2], pt, surfs) \/ evaluate_contains(expr[3], pt, surfs)
    ELSE IF expr[1] = "Intersection" THEN
        evaluate_contains(expr[2], pt, surfs) /\ evaluate_contains(expr[3], pt, surfs)
    ELSE ~evaluate_contains(expr[2], pt, surfs)

contains(self, pt, surfs) == evaluate_contains(self.expr, pt, surfs)

\* the (x_bounds, y_bounds, z_bounds) accumulator of collect_axis_bounds:
\* b[i] = <<lower, upper>> of axis i
UnboundedAxes == [i \in 1..3 |-> <<NEG_INFINITY, INFINITY>>]

\* the axis an axis-aligned plane bounds, 0 for any other plane
plane_axis(k) ==
    IF k.a = 1 /\ k.b = 0 /\ k.c = 0 THEN 1
    ELSE IF k.a = 0 /\ k.b = 1 /\ k.c = 0 THEN 2
    ELSE IF k.a = 0 /\ k.b = 0 /\ k.c = 1 THEN 3
    ELSE 0

\* collect_axis_bounds that descends only into the left operand of an Intersection
RECURSIVE collect_axis_bounds_left_only(_, _, _)
collect_axis_bounds_left_only(expr, surfs, b) ==
    IF expr[1] = "Intersection" THEN
        collect_axis_bounds_left_only(expr[2], surfs, b)
    ELSE IF expr[1] = "Halfspace" THEN
        LET hs == expr[2] IN
        IF hs[2] \in DOMAIN surfs /\ surfs[hs[2]].kind.tag = "Plane" THEN
            LET k == surfs[hs[2]].kind
                ax == plane_axis(k)
            IN  IF ax = 0 THEN b
                ELSE IF hs[1] = "Below"
                    THEN [b EXCEPT ![ax] = <<b[ax][1], FMin(b[ax][2], F(k.d))>>]
                    ELSE [b EXCEPT ![ax] = <<FMax(b[ax][1], F(k.d)), b[ax][2]>>]
        ELSE b
    ELSE b

RECURSIVE collect_axis_bounds(_, _, _)
collect_axis_bounds(expr, surfs, b) ==
    IF expr[1] = "Intersection" THEN
        collect_axis_bounds(expr[3], surfs, collect_axis_bounds(expr[2], surfs, b))
    ELSE IF expr[1] = "Halfspace" THEN
        LET hs == expr[2] IN
        IF hs[2] \in DOMAIN surfs /\ surfs[hs[2]].kind.tag = "Plane" THEN
            LET k == surfs[hs[2]].kind
                ax == plane_axis(k)
            IN  IF ax = 0 THEN b
                ELSE IF hs[1] = "Below"
                    THEN [b EXCEPT ![ax] = <<b[ax][1], FMin(b[ax][2], F(k.d))>>]
                    ELSE [b EXCEPT ![ax] = <<FMax(b[ax][1], F(k.d)), b[ax][2]>>]
        ELSE b
    ELSE b

\* surfaces.values() restricted to the spheres, in iteration order
sphere_values(surfs, order) == [n \in 1..Len(order) |-> surfs[order[n]]]

bounding_box_with_surfaces(expr, surfs, order) ==
    LET b == collect_axis_bounds(expr, surfs, UnboundedAxes)
        spheres == sphere_values(surfs, order)
        lower == IF Len(spheres) = 0 THEN [i \in 1..3 |-> b[i][1]]
                 ELSE LET k == spheres[1].kind
                          c == <<k.x0, k.y0, k.z0>>
                      IN [i \in 1..3 |-> FMax(b[i][1], F(c[i] - k.radius))]
        upper == IF Len(spheres) = 0 THEN [i \in 1..3 |-> b[i][2]]
                 ELSE LET k == spheres[1].kind
                          c == <<k.x0, k.y0, k.z0>>
                      IN [i \in 1..3 |-> FMin(b[i][2], F(c[i] + k.radius))]
    IN  IF FGt(lower[1], upper[1]) \/ FGt(lower[2], upper[2]) \/ FGt(lower[3], upper[3])
        THEN BoundingBox_new([i \in 1..3 |-> INFINITY], [i \in 1..3 |-> NEG_INFINITY])
        ELSE BoundingBox_new(lower, upper)

bounding_box(self, surfs, order) == bounding_box_with_surfaces(self.expr, surfs, order)

(***************************************************************************)
(* Scripting-level regions (src/src/region_python.rs).  A PyHalfspace is   *)
(* [surface |-> handle of a PySurface, is_above |-> BOOLEAN]; a PyRegion   *)
(* is [expr |-> PyRegionExpr], with PyRegionExpr shaped like RegionExpr    *)
(* but holding a PyHalfspace at each leaf.  py maps handles to the         *)
(* surfaces the PySurface objects wrap.                                    *)
(***************************************************************************)
IsPyRegion(o) == "expr" \in DOMAIN o
IsPyHalfspace(o) == "is_above" \in DOMAIN o

PyHalfspace_new_above(surface) == [surface |-> surface, is_above |-> TRUE]
PyHalfspace_new_below(surface) == [surface |-> surface, is_above |-> FALSE]

\* a __neg__ that flips the side of the halfspace it is applied to
PyHalfspace_neg_flipping(slf) == [surface |-> slf.surface, is_above |-> ~slf.is_above]
PyHalfspace_neg(slf) == [surface |-> slf.surface, is_above |-> FALSE]
PyHalfspace_pos(slf) == [surface |-> slf.surface, is_above |-> TRUE]
PyHalfspace_invert(slf) == [expr |-> <<"Complement", <<"Halfspace", slf>>>>]

PyHalfspace_contains(self, pt, py) ==
    IF self.is_above THEN evaluate(py[self.surface], pt) > 0
    ELSE evaluate(py[self.surface], pt) < 0

PyHalfspace_bounding_box(self, py) ==
    LET k == py[self.surface].kind IN
    IF k.tag = "Plane" THEN
        LET ax == plane_axis(k)
            lower == [i \in 1..3 |-> IF i = ax /\ self.is_above THEN F(k.d) ELSE NEG_INFINITY]
            upper == [i \in 1..3 |-> IF i = ax /\ ~self.is_above THEN F(k.d) ELSE INFINITY]
        IN [lower_left |-> lower, upper_right |-> upper,
            center |-> <<F(0), F(0), F(0)>>, width |-> <<F(0), F(0), F(0)>>]
    ELSE IF k.tag = "Sphere" THEN
        [lower_left |-> <<F(k.x0 - k.radius), F(k.y0 - k.radius), F(k.z0 - k.radius)>>,
         upper_right |-> <<F(k.x0 + k.radius), F(k.y0 + k.radius), F(k.z0 + k.radius)>>,
         center |-> <<F(k.x0), F(k.y0), F(k.z0)>>,
         width |-> <<FTwice(F(k.radius)), FTwice(F(k.radius)), FTwice(F(k.radius))>>]
    ELSE
        [lower_left |-> [i \in 1..3 |-> NEG_INFINITY], upper_right |-> [i \in 1..3 |-> INFINITY],
         center |-> <<F(0), F(0), F(0)>>, width |-> <<F(0), F(0), F(0)>>]

\* PyHalfspace::__and__ / __or__: other is a PyHalfspace or a PyRegion
PyHalfspace_and(self, other) ==
    IF IsPyHalfspace(other)
    THEN [expr |-> <<"Intersection", <<"Halfspace", self>>, <<"Halfspace", other>>>>]
    ELSE [expr |-> <<"Intersection", <<"Halfspace", self>>, other.expr>>]
PyHalfspace_or(self, other) ==
    IF IsPyHalfspace(other)
    THEN [expr |-> <<"Union", <<"Halfspace", self>>, <<"Halfspace", other>>>>]
    ELSE [expr |-> <<"Union", <<"Halfspace", self>>, other.expr>>]

\* PyRegion::__invert__ / __and__ / __or__: other is a PyRegion or a PyHalfspace
PyRegion_invert(self) == [expr |-> <<"Complement", self.expr>>]
PyRegion_and(self, other) ==
    IF IsPyRegion(other)
    THEN [expr |-> <<"Intersection", self.expr, other.expr>>]
    ELSE [expr |-> <<"Intersection", self.expr, <<"Halfspace", other>>>>]
PyRegion_or(self, other) ==
    IF IsPyRegion(other)
    THEN [expr |-> <<"Union", self.expr, other.expr>>]
    ELSE [expr |-> <<"Union", self.expr, <<"Halfspace", other>>>>]

\* PyRegionExpr::evaluate_contains with the Intersection arm joined by || instead of &&
RECURSIVE py_evaluate_contains_intersection_as_or(_, _, _)
py_evaluate_contains_intersection_as_or(expr, pt, py) ==
    IF expr[1] = "Halfspace" THEN
        IF expr[2].is_above THEN evaluate(py[expr[2].surface], pt) > 0
        ELSE evaluate(py[expr[2].surface], pt) < 0
    ELSE IF expr[1] = "Union" THEN
        py_evaluate_contains_intersection_as_or(expr[2], pt, py)
            \/ py_evaluate_contains_intersection_as_or(expr[3], pt, py)
    ELSE IF expr[1] = "Intersection" THEN
        py_evaluate_contains_intersection_as_or(expr[2], pt, py)
            \/ py_evaluate_contains_intersection_as_or(expr[3], pt, py)
    ELSE ~py_evaluate_contains_intersection_as_or(expr[2], pt, py)

RECURSIVE py_evaluate_contains(_, _, _)
py_evaluate_contains(expr, pt, py) ==
    IF expr[1] = "Halfspace" THEN
        IF expr[2].is_above THEN evaluate(py[expr[2].surface], pt) > 0
        ELSE evaluate(py[expr[2].surface], pt) < 0
    ELSE IF expr[1] = "Union" THEN
        py_evaluate_contains(expr[2], pt, py) \/ py_evaluate_contains(expr[3], pt, py)
    ELSE IF expr[1] = "Intersection" THEN
        py_evaluate_contains(expr[2], pt, py) /\ py_evaluate_contains(expr[3], pt, py)
    ELSE ~py_evaluate_contains(expr[2], pt, py)

RECURSIVE py_bounding_box(_, _)
py_bounding_box(expr, py) ==
    IF expr[1] = "Halfspace" THEN PyHalfspace_bounding_box(expr[2], py)
    ELSE IF expr[1] = "Intersection" THEN
        LET bbox_a == py_bounding_box(expr[2], py)
            bbox_b == py_bounding_box(expr[3], py)
            lower_left == [i \in 1..3 |-> FMax(bbox_a.lower_left[i], bbox_b.lower_left[i])]
            upper_right == [i \in 1..3 |-> FMin(bbox_a.upper_right[i], bbox_b.upper_right[i])]
        IN [lower_left |-> lower_left, upper_right |-> upper_right,
            center |-> [i \in 1..3 |-> FHalf(FAdd(lower_left[i], upper_right[i]))],
            width |-> [i \in 1..3 |-> FSub(upper_right[i], lower_left[i])]]
    ELSE IF expr[1] = "Union" THEN
        LET bbox_a == py_bounding_box(expr[2], py)
            bbox_b == py_bounding_box(expr[3], py)
            lower_left == [i \in 1..3 |-> FMin(bbox_a.lower_left[i], bbox_b.lower_left[i])]
            upper_right == [i \in 1..3 |-> FMax(bbox_a.upper_right[i], bbox_b.upper_right[i])]
        IN [lower_left |-> lower_left, upper_right |-> upper_right,
            center |-> [i \in 1..3 |-> FHalf(FAdd(lower_left[i], upper_right[i]))],
            width |-> [i \in 1..3 |-> FSub(upper_right[i], lower_left[i])]]
    ELSE
        [lower_left |-> [i \in 1..3 |-> NEG_INFINITY], upper_right |-> [i \in 1..3 |-> INFINITY],
         center |-> <<F(0), F(0), F(0)>>, width |-> [i \in 1..3 |-> INFINITY]]

\* PyRegion::contains / bounding_box, and the same queries on a PyHalfspace
py_contains(o, pt, py) ==
    IF IsPyRegion(o) THEN py_evaluate_contains(o.expr, pt, py)
    ELSE PyHalfspace_contains(o, pt, py)
py_bbox(o, py) ==
    IF IsPyRegion(o) THEN py_bounding_box(o.expr, py)
    ELSE PyHalfspace_bounding_box(o, py)

\* a & b, a | b, ~a: Python calls the method of the left operand's class
py_and(a, b) == IF IsPyRegion(a) THEN PyRegion_and(a, b) ELSE PyHalfspace_and(a, b)
py_or(a, b) == IF IsPyRegion(a) THEN PyRegion_or(a, b) ELSE PyHalfspace_or(a, b)
py_invert(a) == IF IsPyRegion(a) THEN PyRegion_invert(a) ELSE PyHalfspace_invert(a)

(***************************************************************************)
(* Cell and Universe (src/src/cell.rs).  A cell owns a Region whose leaves *)
(* hold their surface (Arc<Surface>) instead of an id into a table.        *)
(***************************************************************************)
\* Region::contains(point) of the region a cell holds: the boolean evaluation
\* of the tree, each leaf evaluating the surface it holds
\* a containment rule whose Below halfspace includes the surface itself
RECURSIVE arc_evaluate_contains_closed_below(_, _)
arc_evaluate_contains_closed_below(expr, pt) ==
    IF expr[1] = "Halfspace" THEN
        IF expr[2][1] = "Above" THEN evaluate(expr[2][2], pt) > 0
        ELSE evaluate(expr[2][2], pt) <= 0
    ELSE IF expr[1] = "Union" THEN
        arc_evaluate_contains_closed_below(expr[2], pt)
            \/ arc_evaluate_contains_closed_below(expr[3], pt)
    ELSE IF expr[1] = "Intersection" THEN
        arc_evaluate_contains_closed_below(expr[2], pt)
            /\ arc_evaluate_contains_closed_below(expr[3], pt)
    ELSE ~arc_evaluate_contains_closed_below(expr[2], pt)

RECURSIVE arc_evaluate_contains(_, _)
arc_evaluate_contains(expr, pt) ==
    IF expr[1] = "Halfspace" THEN
        IF expr[2][1] = "Above" THEN evaluate(expr[2][2], pt) > 0
        ELSE evaluate(expr[2][2], pt) < 0
    ELSE IF expr[1] = "Union" THEN
        arc_evaluate_contains(expr[2], pt) \/ arc_evaluate_contains(expr[3], pt)
    ELSE IF expr[1] = "Intersection" THEN
        arc_evaluate_contains(expr[2], pt) /\ arc_evaluate_contains(expr[3], pt)
    ELSE ~arc_evaluate_contains(expr[2], pt)

arc_contains(self, pt) == arc_evaluate_contains(self.expr, pt)

CellFill_Void == [tag |-> "Void"]
CellFill_Material(material_id) == [tag |-> "Material", id |-> material_id]
CellFill_Universe(universe_id) == [tag |-> "Universe", id |-> universe_id]

Cell_new_void(cell_id, region) ==
    [cell_id |-> cell_id, name |-> None, region |-> region, fill |-> CellFill_Void]
Cell_new_with_material(cell_id, region, material_id) ==
    [cell_id |-> cell_id, name |-> None, region |-> region,
     fill |-> CellFill_Material(material_id)]
Cell_contains(self, pt) == arc_contains(self.region, pt)
\* a material_id that reports material 0 for a cell without material
Cell_material_id_zero_for_void(self) ==
    IF self.fill.tag = "Material" THEN Some(self.fill.id) ELSE Some(0)
Cell_material_id(self) ==
    IF self.fill.tag = "Material" THEN Some(self.fill.id) ELSE None
Cell_is_void(self) == self.fill.tag = "Void"
\* a with_name that also empties the cell
Cell_with_name_voiding(self, name) ==
    [self EXCEPT !.name = Some(name), !.fill = CellFill_Void]
Cell_with_name(self, name) == [self EXCEPT !.name = Some(name)]

\* The region a cell holds, with every leaf naming its surface by id, and its
\* bounding box by the plane-collection-plus-sphere pass over the surfaces
RECURSIVE arc_by_id(_)
arc_by_id(expr) ==
    IF expr[1] = "Halfspace" THEN <<"Halfspace", <<expr[2][1], expr[2][2].surface_id>>>>
    ELSE IF expr[1] = "Complement" THEN <<"Complement", arc_by_id(expr[2])>>
    ELSE <<expr[1], arc_by_id(expr[2]), arc_by_id(expr[3])>>
arc_bounding_box(self, surfs, order) ==
    bounding_box_with_surfaces(arc_by_id(self.expr), surfs, order)
Cell_bounding_box(self, surfs, order) == arc_bounding_box(self.region, surfs, order)

(***************************************************************************)
(* Cells of the scripting API (src/src/cell_python.rs): the PyRegion is    *)
(* converted to a Region holding a copy of each surface.                   *)
(***************************************************************************)
RECURSIVE convert_expr(_, _)
convert_expr(expr, py) ==
    IF expr[1] = "Halfspace" THEN
        IF expr[2].is_above THEN <<"Halfspace", <<"Above", py[expr[2].surface]>>>>
        ELSE <<"Halfspace", <<"Below", py[expr[2].surface]>>>>
    ELSE IF expr[1] = "Union" THEN
        <<"Union", convert_expr(expr[2], py), convert_expr(expr[3], py)>>
    ELSE IF expr[1] = "Intersection" THEN
        <<"Intersection", convert_expr(expr[2], py), convert_expr(expr[3], py)>>
    ELSE <<"Complement", convert_expr(expr[2], py)>>
\* a conversion that stores the complement of the tree
to_rust_region_complemented(self, py) ==
    [expr |-> <<"Complement", convert_expr(self.expr, py)>>]
to_rust_region(self, py) == [expr |-> convert_expr(self.expr, py)]

PyCell_new(cell_id, region, material_id, name, py) ==
    LET rust_region == to_rust_region(region, py)
        cell == IF material_id.some
                THEN Cell_new_with_material(cell_id, rust_region, material_id.value)
                ELSE Cell_new_void(cell_id, rust_region)
    IN  IF name.some THEN Cell_with_name(cell, name.value) ELSE cell
PyCell_set_name(self, name) == [self EXCEPT !.name = Some(name)]
PyCell_contains(self, pt) == Cell_contains(self, pt)
PyCell_bounding_box(self, surfs, order) ==
    LET bbox == Cell_bounding_box(self, surfs, order)
    IN  [lower_left |-> bbox.lower_left_corner, upper_right |-> bbox.upper_right_corner,
         center |-> bbox.center, width |-> bbox.width]

Universe_new(universe_id) == [universe_id |-> universe_id, name |-> None, cells |-> <<>>]

\* a universe whose add_cell keeps the cell already stored under the id
add_cell_keep_first(self, cell) ==
    [self EXCEPT !.cells = self.cells @@ (cell.cell_id :> cell)]
\* self.cells.insert(cell.cell_id, cell)
add_cell(self, cell) ==
    [self EXCEPT !.cells = (cell.cell_id :> cell) @@ self.cells]

\* a find_cell that returns the first cell of the iteration, whatever it contains
find_cell_first_visited(self, pt, order) ==
    IF order = <<>> THEN None ELSE Some(self.cells[Head(order)])
\* a find_cell that looks at the first cell of the iteration only
find_cell_giving_up_early(self, pt, order) ==
    IF order = <<>> THEN None
    ELSE IF Cell_contains(self.cells[Head(order)], pt) THEN Some(self.cells[Head(order)])
    ELSE None
\* for cell in self.cells.values(): order is the sequence of keys as values() yields them
RECURSIVE find_cell(_, _, _)
find_cell(self, pt, order) ==
    IF order = <<>> THEN None
    ELSE IF Cell_contains(self.cells[Head(order)], pt) THEN Some(self.cells[Head(order)])
    ELSE find_cell(self, pt, Tail(order))

get_cell(self, cell_id) ==
    IF cell_id \in DOMAIN self.cells THEN Some(self.cells[cell_id]) ELSE None

(***************************************************************************)
(* Geometry (src/src/geometry.rs): an ordered list of cells.               *)
(***************************************************************************)
Geometry_new(cells) == [cells |-> cells]
\* a find_cell that keeps looking and returns the last cell containing the point
RECURSIVE find_last(_, _, _)
find_last(cells, pt, found) ==
    IF cells = <<>> THEN found
    ELSE IF Cell_contains(Head(cells), pt) THEN find_last(Tail(cells), pt, Some(Head(cells)))
    ELSE find_last(Tail(cells), pt, found)
Geometry_find_cell_last_listed(self, pt) == find_last(self.cells, pt, None)
\* self.cells.iter().find(|cell| cell.contains(point))
RECURSIVE iter_find(_, _)
iter_find(cells, pt) ==
    IF cells = <<>> THEN None
    ELSE IF Cell_contains(Head(cells), pt) THEN Some(Head(cells))
    ELSE iter_find(Tail(cells), pt)
Geometry_find_cell(self, pt) == iter_find(self.cells, pt)
PyGeometry_new(cells) == [inner |-> Geometry_new(cells)]
PyGeometry_find_cell(self, x, y, z) == Geometry_find_cell(self.inner, <<x, y, z>>)

(***************************************************************************)
(* The surfaces regions are built over.                                    *)
(***************************************************************************)
TwoSlabPlanes == (1 :> x_plane(0, 1, "None")) @@ (2 :> x_plane(-1, 2, "None"))
PlaneAndSphere == (1 :> x_plane(0, 1, "None")) @@ (2 :> new_sphere(-1, 0, 0, 1, 2, "None"))
PlaneAndCylinder == (1 :> y_plane(0, 1, "None")) @@ (2 :> z_cylinder(0, 0, 1, 2, "None"))
SurfaceTables == {TwoSlabPlanes, PlaneAndSphere, PlaneAndCylinder}

SphereIds(surfs) == {id \in DOMAIN surfs : surfs[id].kind.tag = "Sphere"}
IterationOrders(S) ==
    {o \in [1..Cardinality(S) -> S] : \A m, n \in 1..Cardinality(S) : m # n => o[m] # o[n]}

(***************************************************************************)
(* Initial states: the surfaces exist, no region has been built.           *)
(***************************************************************************)
InitWith(tables, points) ==
    /\ api \in {"core", "py"}
    /\ surfaces \in tables
    /\ sphere_order \in IterationOrders(SphereIds(surfaces))
    /\ point \in points
    /\ regions = <<>>
    /\ last = <<"none">>
    /\ universe = Universe_new(0)
    /\ added = <<>>

Init == InitWith({PlaneAndSphere, PlaneAndCylinder}, Points)

\* The caller's regions after r = a.intersection(&b), a.union(&b), a.complement():
\* the operands are borrowed immutably and cloned into the new tree.
after_intersection(rs, i, j) == Append(rs, intersection(rs[i], rs[j]))
\* a union that also overwrites its left operand with the result
after_union_in_place(rs, i, j) ==
    Append([rs EXCEPT ![i] = union(rs[i], rs[j])], union(rs[i], rs[j]))
after_union(rs, i, j) == Append(rs, union(rs[i], rs[j]))
after_complement(rs, i) == Append(rs, complement(rs[i]))
\* and after r = a & b, a | b, ~a in a script
after_py_and(rs, i, j) == Append(rs, py_and(rs[i], rs[j]))
after_py_or(rs, i, j) == Append(rs, py_or(rs[i], rs[j]))
after_py_invert(rs, i) == Append(rs, py_invert(rs[i]))

Built(rs) ==
    /\ regions' = rs
    /\ last' = <<"region", Len(rs)>>
    /\ UNCHANGED <<api, surfaces, sphere_order, point, universe, added>>

Returned(call, i, value) ==
    /\ last' = <<call, i, value>>
    /\ UNCHANGED <<api, surfaces, sphere_order, point, regions, universe, added>>

(***************************************************************************)
(* Core API: Region::new_from_halfspace / intersection / union /           *)
(* complement / contains / bounding_box.                                   *)
(***************************************************************************)
RegionNewFromHalfspace(cap) ==
    /\ api = "core" /\ Len(regions) < cap
    /\ \E side \in {"Above", "Below"}, id \in DOMAIN surfaces :
          Built(Append(regions, new_from_halfspace(<<side, id>>)))

RegionIntersection(cap) ==
    /\ api = "core" /\ Len(regions) < cap
    /\ \E i, j \in 1..Len(regions) : Built(after_intersection(regions, i, j))

RegionUnion(cap) ==
    /\ api = "core" /\ Len(regions) < cap
    /\ \E i, j \in 1..Len(regions) : Built(after_union(regions, i, j))

RegionComplement(cap) ==
    /\ api = "core" /\ Len(regions) < cap
    /\ \E i \in 1..Len(regions) : Built(after_complement(regions, i))

RegionContains ==
    /\ api = "core"
    /\ \E i \in 1..Len(regions) :
          Returned("contains", i, contains(regions[i], point, surfaces))

RegionBoundingBox ==
    /\ api = "core"
    /\ \E i \in 1..Len(regions) :
          Returned("bounding_box", i, bounding_box(regions[i], surfaces, sphere_order))

(***************************************************************************)
(* Scripting API: -surface / +surface, the & | ~ operators of PyHalfspace  *)
(* and PyRegion, contains and bounding_box.                                *)
(***************************************************************************)
PySurfaceNegPos(cap) ==
    /\ api = "py" /\ Len(regions) < cap
    /\ \E h \in DOMAIN surfaces :
          \/ Built(Append(regions, PyHalfspace_new_below(h)))
          \/ Built(Append(regions, PyHalfspace_new_above(h)))

PyAnd(cap) ==
    /\ api = "py" /\ Len(regions) < cap
    /\ \E i, j \in 1..Len(regions) : Built(after_py_and(regions, i, j))

PyOr(cap) ==
    /\ api = "py" /\ Len(regions) < cap
    /\ \E i, j \in 1..Len(regions) : Built(after_py_or(regions, i, j))

PyInvert(cap) ==
    /\ api = "py" /\ Len(regions) < cap
    /\ \E i \in 1..Len(regions) : Built(after_py_invert(regions, i))

PyContains ==
    /\ api = "py"
    /\ \E i \in 1..Len(regions) :
          Returned("contains", i, py_contains(regions[i], point, surfaces))

PyBoundingBox ==
    /\ api = "py"
    /\ \E i \in 1..Len(regions) :
          Returned("bounding_box", i, py_bbox(regions[i], surfaces))

Next ==
    \/ RegionNewFromHalfspace(MaxOperands)
    \/ RegionIntersection(MaxOperands)
    \/ RegionUnion(MaxOperands)
    \/ RegionComplement(MaxOperands)
    \/ RegionContains
    \/ PySurfaceNegPos(MaxOperands)
    \/ PyAnd(MaxOperands)
    \/ PyOr(MaxOperands)
    \/ PyInvert(MaxOperands)
    \/ PyContains

Spec == Init /\ [][Next]_vars

(***************************************************************************)
(* Bounding boxes of deeper trees: one query point, more regions.          *)
(***************************************************************************)
InitBox == InitWith(SurfaceTables, {<<0, 0, 0>>})

NextBox ==
    \/ RegionNewFromHalfspace(MaxRegions)
    \/ RegionIntersection(MaxRegions)
    \/ RegionUnion(MaxRegions)
    \/ RegionComplement(MaxRegions)
    \/ RegionBoundingBox
    \/ PySurfaceNegPos(MaxRegions)
    \/ PyAnd(MaxRegions)
    \/ PyOr(MaxRegions)
    \/ PyInvert(MaxRegions)
    \/ PyBoundingBox

SpecBox == InitBox /\ [][NextBox]_vars

(***************************************************************************)
(* Building and querying interleaved: every operation, one query point     *)
(* off all the surfaces.                                                   *)
(***************************************************************************)
InitPure == InitWith({PlaneAndSphere, PlaneAndCylinder}, {<<1, 1, 0>>})

NextPure ==
    \/ RegionNewFromHalfspace(MaxOperands)
    \/ RegionIntersection(MaxOperands)
    \/ RegionUnion(MaxOperands)
    \/ RegionComplement(MaxOperands)
    \/ RegionContains
    \/ RegionBoundingBox
    \/ PySurfaceNegPos(MaxOperands)
    \/ PyAnd(MaxOperands)
    \/ PyOr(MaxOperands)
    \/ PyInvert(MaxOperands)
    \/ PyContains
    \/ PyBoundingBox

SpecPure == InitPure /\ [][NextPure]_vars

(***************************************************************************)
(* Bounding boxes of single halfspaces of every kind of surface: the three *)
(* axis planes, planes with a scaled, negated or oblique normal and a      *)
(* cylinder, two disjoint spheres in one table.                            *)
(***************************************************************************)
AxisPlanes ==
    (1 :> x_plane(1, 1, "None")) @@ (2 :> y_plane(-1, 2, "None")) @@ (3 :> z_plane(0, 3, "None"))
SkewSurfaces ==
    (1 :> new_plane(2, 0, 0, 1, 1, "None")) @@ (2 :> new_plane(-1, 0, 0, 1, 2, "None")) @@
    (3 :> new_plane(1, 1, 0, 0, 3, "None")) @@ (4 :> z_cylinder(0, 0, 1, 4, "None"))
TwoSpheres ==
    (1 :> new_sphere(-2, 0, 0, 1, 1, "None")) @@ (2 :> new_sphere(2, 0, 0, 1, 2, "None"))
CylinderAndSphere ==
    (1 :> z_cylinder(0, 0, 1, 1, "None")) @@ (2 :> new_sphere(-1, 0, 0, 1, 2, "None"))

InitLeaf ==
    InitWith({AxisPlanes, SkewSurfaces, TwoSpheres, PlaneAndSphere, CylinderAndSphere},
             {<<0, 0, 0>>})

NextLeaf ==
    \/ RegionNewFromHalfspace(MaxOperands)
    \/ RegionIntersection(MaxOperands)
    \/ RegionUnion(MaxOperands)
    \/ RegionComplement(MaxOperands)
    \/ RegionBoundingBox
    \/ PySurfaceNegPos(MaxOperands)
    \/ PyAnd(MaxOperands)
    \/ PyOr(MaxOperands)
    \/ PyInvert(MaxOperands)
    \/ PyBoundingBox

SpecLeaf == InitLeaf /\ [][NextLeaf]_vars

(***************************************************************************)
(* A Universe filled by add_cell and queried by find_cell and get_cell.    *)
(* The cells are a sphere's inside (material), its complement (void) and   *)
(* its outside (void), under each cell id.                                 *)
(***************************************************************************)
UnitSphere == new_sphere(0, 0, 0, 1, 1, "None")
SphereRegion == new_from_halfspace(<<"Below", UnitSphere>>)
VoidRegion == complement(SphereRegion)
OutsideRegion == new_from_halfspace(<<"Above", UnitSphere>>)
CellIds == 1..MaxCellId
CandidateCells ==
    UNION {{Cell_new_with_material(id, SphereRegion, 101),
            Cell_new_void(id, VoidRegion),
            Cell_new_void(id, OutsideRegion)} : id \in CellIds}

InitUniverse ==
    /\ api = "core"
    /\ surfaces = <<>>
    /\ sphere_order = <<>>
    /\ point = <<0, 0, 0>>
    /\ regions = <<>>
    /\ last = <<"none">>
    /\ universe = Universe_new(0)
    /\ added = <<>>

UniverseAddCell ==
    /\ Len(added) < MaxAdds
    /\ \E cell \in CandidateCells :
          /\ universe' = add_cell(universe, cell)
          /\ added' = Append(added, cell)
          /\ last' = <<"add_cell", cell.cell_id>>
    /\ UNCHANGED <<api, surfaces, sphere_order, point, regions>>

\* the call is recorded with the universe it was made on
UniverseFindCell ==
    /\ \E order \in IterationOrders(DOMAIN universe.cells), pt \in Points :
          last' = <<"find_cell", pt, find_cell(universe, pt, order), universe>>
    /\ UNCHANGED <<api, surfaces, sphere_order, point, regions, universe, added>>

\* get_cell of every id a cell may have, and of one no cell has
UniverseGetCell ==
    /\ \E cell_id \in 1..(MaxCellId + 1) :
          last' = <<"get_cell", cell_id, get_cell(universe, cell_id)>>
    /\ UNCHANGED <<api, surfaces, sphere_order, point, regions, universe, added>>

NextUniverse ==
    \/ UniverseAddCell
    \/ UniverseFindCell
    \/ UniverseGetCell

SpecUniverse == InitUniverse /\ [][NextUniverse]_vars

(***************************************************************************)
(* The universe of test_universe_multiple_cells: concentric spheres S1     *)
(* and S2, the cells fuel = Below(S1), moderator = Above(S1) & Below(S2),  *)
(* void = Above(S2), and a fourth cell Above(S1) that overlaps the last    *)
(* two.  The cells are added in any order; find_cell is asked about        *)
(* `point` under every iteration order of the cell map.                    *)
(***************************************************************************)
InnerSphere == new_sphere(0, 0, 0, 1, 1, "None")
OuterSphere == new_sphere(0, 0, 0, 2, 2, "None")
InnerRegion == new_from_halfspace(<<"Below", InnerSphere>>)
ShellRegion ==
    intersection(new_from_halfspace(<<"Above", InnerSphere>>),
                 new_from_halfspace(<<"Below", OuterSphere>>))
OuterRegion == new_from_halfspace(<<"Above", OuterSphere>>)
FuelCell == Cell_with_name(Cell_new_with_material(1, InnerRegion, 235), "fuel")
ModeratorCell == Cell_with_name(Cell_new_with_material(2, ShellRegion, 1001), "moderator")
VoidCell == Cell_with_name(Cell_new_void(3, OuterRegion), "void")
OverlappingCell == Cell_new_void(4, new_from_halfspace(<<"Above", InnerSphere>>))
ShellCells == {FuelCell, ModeratorCell, VoidCell, OverlappingCell}
\* a grid reaching past the outer sphere
ShellCoords == (-(MaxCoord + 1))..(MaxCoord + 1)
ShellPoints == ShellCoords \X ShellCoords \X {0}

InitShells ==
    /\ api = "core"
    /\ surfaces = <<>>
    /\ sphere_order = <<>>
    /\ point \in ShellPoints
    /\ regions = <<>>
    /\ last = <<"none">>
    /\ universe = Universe_new(1)
    /\ added = <<>>

ShellsAddCell ==
    /\ Len(added) < MaxAdds + 1
    /\ \E cell \in ShellCells :
          /\ cell.cell_id \notin DOMAIN universe.cells
          /\ universe' = add_cell(universe, cell)
          /\ added' = Append(added, cell)
          /\ last' = <<"add_cell", cell.cell_id>>
    /\ UNCHANGED <<api, surfaces, sphere_order, point, regions>>

\* the call is recorded with the iteration order it met
ShellsFindCell ==
    /\ \E order \in IterationOrders(DOMAIN universe.cells) :
          last' = <<"find_cell", point, find_cell(universe, point, order), order>>
    /\ UNCHANGED <<api, surfaces, sphere_order, point, regions, universe, added>>

NextShells ==
    \/ ShellsAddCell
    \/ ShellsFindCell

SpecShells == InitShells /\ [][NextShells]_vars

(***************************************************************************)
(* A Geometry over a list of cells; `added` is the list it was built from. *)
(***************************************************************************)
RECURSIVE CellLists(_)
CellLists(n) ==
    IF n = 0 THEN {<<>>}
    ELSE CellLists(n - 1)
         \cup {Append(cells, cell) : cells \in CellLists(n - 1), cell \in CandidateCells}

InitGeometry ==
    /\ api \in {"core", "py"}
    /\ surfaces = <<>>
    /\ sphere_order = <<>>
    /\ point = <<0, 0, 0>>
    /\ regions = <<>>
    /\ last = <<"none">>
    /\ universe = Universe_new(0)
    /\ added \in CellLists(MaxAdds)

GeometryFindCell ==
    /\ api = "core"
    /\ \E pt \in Points :
          last' = <<"find_cell", pt, Geometry_find_cell(Geometry_new(added), pt)>>
    /\ UNCHANGED <<api, surfaces, sphere_order, point, regions, universe, added>>

PyGeometryFindCell ==
    /\ api = "py"
    /\ \E pt \in Points :
          last' = <<"find_cell", pt,
                    PyGeometry_find_cell(PyGeometry_new(added), pt[1], pt[2], pt[3])>>
    /\ UNCHANGED <<api, surfaces, sphere_order, point, regions, universe, added>>

NextGeometry ==
    \/ GeometryFindCell
    \/ PyGeometryFindCell

SpecGeometry == InitGeometry /\ [][NextGeometry]_vars

(***************************************************************************)
(* Constructing surfaces: every constructor, with the boundary type given  *)
(* as a value, as text, or omitted.                                        *)
(***************************************************************************)
char_to_uppercase(c) ==
    IF \E k \in 1..Len(LowerCaseLetters) : LowerCaseLetters[k] = c
    THEN UpperCaseLetters[CHOOSE k \in 1..Len(LowerCaseLetters) : LowerCaseLetters[k] = c]
    ELSE c
\* every way of writing a word in upper and lower case
RECURSIVE CaseVariants(_)
CaseVariants(word) ==
    IF word = <<>> THEN {<<>>}
    ELSE {<<c>> \o rest : c \in {word[1], char_to_uppercase(word[1])},
                          rest \in CaseVariants(Tail(word))}
\* a word with its first k letters in upper case
UpperPrefix(word, k) ==
    [n \in 1..Len(word) |-> IF n <= k THEN char_to_uppercase(word[n]) ELSE word[n]]
RejectedTexts ==
    {<<>>,
     <<"v", "a", "c", "u", "u">>,
     <<"v", "a", "c", "u", "u", "m", "m">>,
     <<" ", "v", "a", "c", "u", "u", "m">>,
     <<"v", "a", "c", "u", "u", "m", " ">>,
     <<"V", "A", "C", "U", "U", "N">>,
     <<"v", "o", "i", "d">>,
     <<"n", "o", "n", "e">>,
     <<"t", "r", "a", "n", "s", "m", "i", "s", "s", "i", "o">>,
     <<"t", "r", "a", "n", "s", "m", "i", "t">>,
     <<"r", "e", "f", "l", "e", "c", "t", "i", "v", "e">>,
     <<"T", "r", "a", "n", "s", "m", "i", "s", "s", "i", "o", "n", "s">>}
BoundaryTexts ==
    CaseVariants(Str_vacuum)
        \cup {UpperPrefix(Str_transmission, k) : k \in 0..Len(Str_transmission)}
        \cup RejectedTexts
OptionalTexts == {None} \cup {Some(t) : t \in BoundaryTexts}
OptionalBoundaryTypes == {"None", "Vacuum", "Transmission"}

TypedConstructors ==
    {"new_plane", "new_sphere", "new_cylinder", "x_plane", "y_plane", "z_plane",
     "z_cylinder", "sphere", "cylinder"}
TextConstructors ==
    {"x_plane_str", "y_plane_str", "z_plane_str", "sphere_str", "cylinder_str",
     "z_cylinder_str", "plane_str"}
PyConstructors == {"XPlane", "YPlane", "ZPlane", "ZCylinder", "Sphere", "Cylinder", "Plane"}

call_typed(ctor, bt) ==
    CASE ctor = "new_plane" -> new_plane(1, 1, 0, 2, 1, bt)
      [] ctor = "new_sphere" -> new_sphere(0, 0, 0, 1, 2, bt)
      [] ctor = "new_cylinder" -> new_cylinder(<<1, 0, 0>>, <<0, 0, 0>>, 1, 3, bt)
      [] ctor = "x_plane" -> x_plane(1, 4, bt)
      [] ctor = "y_plane" -> y_plane(1, 5, bt)
      [] ctor = "z_plane" -> z_plane(1, 6, bt)
      [] ctor = "z_cylinder" -> z_cylinder(0, 0, 1, 7, bt)
      [] ctor = "sphere" -> sphere(0, 0, 0, 1, 8, bt)
      [] ctor = "cylinder" -> cylinder(0, 0, 0, 1, 0, 0, 1, 9, bt)
call_text(ctor, bt) ==
    CASE ctor = "x_plane_str" -> x_plane_str(1, 1, bt)
      [] ctor = "y_plane_str" -> y_plane_str(1, 2, bt)
      [] ctor = "z_plane_str" -> z_plane_str(1, 3, bt)
      [] ctor = "sphere_str" -> sphere_str(0, 0, 0, 1, 4, bt)
      [] ctor = "cylinder_str" -> cylinder_str(0, 0, 0, 1, 0, 0, 1, 5, bt)
      [] ctor = "z_cylinder_str" -> z_cylinder_str(0, 0, 1, 6, bt)
      [] ctor = "plane_str" -> plane_str(1, 1, 0, 2, 7, bt)
call_py(ctor, bt) ==
    CASE ctor = "XPlane" -> XPlane(1, 1, bt)
      [] ctor = "YPlane" -> YPlane(1, 2, bt)
      [] ctor = "ZPlane" -> ZPlane(1, 3, bt)
      [] ctor = "ZCylinder" -> ZCylinder(0, 0, 1, 4, bt)
      [] ctor = "Sphere" -> Sphere(None, None, None, 1, None, bt)
      [] ctor = "Cylinder" -> Cylinder(<<1, 0, 0>>, <<0, 0, 0>>, 1, Some(5), bt)
      [] ctor = "Plane" -> Plane(1, 1, 0, 2, Some(6), bt)

\* a constructor call leaves everything but the returned value alone
Called(call, ctor, bt) ==
    /\ last'[1] = call /\ last'[2] = ctor /\ last'[3] = bt
    /\ UNCHANGED <<api, surfaces, sphere_order, point, regions, universe, added>>

SurfaceNew ==
    \E ctor \in TypedConstructors, bt \in OptionalBoundaryTypes :
        /\ last' = <<"new", ctor, bt, call_typed(ctor, bt)>>
        /\ Called("new", ctor, bt)
SurfaceNewStr ==
    \E ctor \in TextConstructors, bt \in OptionalTexts :
        /\ last' = <<"new_str", ctor, bt, call_text(ctor, bt)>>
        /\ Called("new_str", ctor, bt)
PySurfaceNew ==
    \E ctor \in PyConstructors, bt \in OptionalTexts :
        /\ last' = <<"new_py", ctor, bt, call_py(ctor, bt)>>
        /\ Called("new_py", ctor, bt)

InitSurface == InitUniverse
NextSurface ==
    \/ SurfaceNew
    \/ SurfaceNewStr
    \/ PySurfaceNew

SpecSurface == InitSurface /\ [][NextSurface]_vars

(***************************************************************************)
(* Changing the boundary type of the surfaces regions are built over.      *)
(***************************************************************************)
BoundaryTypes == {"Vacuum", "Transmission"}
SetterTexts ==
    {Str_vacuum, UpperPrefix(Str_transmission, Len(Str_transmission)),
     UpperPrefix(Str_vacuum, 1), <<"v", "o", "i", "d">>}

\* surface.set_boundary_type(b); the call is recorded with the surfaces before it
SurfaceSetBoundaryType ==
    /\ api = "core"
    /\ \E id \in DOMAIN surfaces, b \in BoundaryTypes :
          /\ surfaces' = [surfaces EXCEPT ![id] = set_boundary_type(@, b)]
          /\ last' = <<"set_boundary_type", id, b, surfaces>>
    /\ UNCHANGED <<api, sphere_order, point, regions, universe, added>>

\* surface.boundary_type = text in a script
PySurfaceSetBoundaryType ==
    /\ api = "py"
    /\ \E id \in DOMAIN surfaces, text \in SetterTexts :
          /\ surfaces' = [surfaces EXCEPT
                             ![id] = PySurface_set_boundary_type(@, text).self]
          /\ last' = <<"py_set_boundary_type", id,
                       PySurface_set_boundary_type(surfaces[id], text).result, surfaces, text>>
    /\ UNCHANGED <<api, sphere_order, point, regions, universe, added>>

InitBoundary == InitWith({PlaneAndSphere, PlaneAndCylinder}, {<<0, 0, 0>>})

NextBoundary ==
    \/ RegionNewFromHalfspace(MaxOperands)
    \/ RegionIntersection(MaxOperands)
    \/ RegionUnion(MaxOperands)
    \/ RegionComplement(MaxOperands)
    \/ PySurfaceNegPos(MaxOperands)
    \/ PyAnd(MaxOperands)
    \/ PyOr(MaxOperands)
    \/ PyInvert(MaxOperands)
    \/ SurfaceSetBoundaryType
    \/ PySurfaceSetBoundaryType

SpecBoundary == InitBoundary /\ [][NextBoundary]_vars

(***************************************************************************)
(* Cells: built from a Region by Cell::new_void / new_with_material, or    *)
(* in a script from a PyRegion by Cell(cell_id, region, material_id,       *)
(* name); then renamed.  The script's region is regions[1].  The cell just *)
(* built or renamed is last[3]; what it was built from (a region, the      *)
(* index of the PyRegion, or the cell before the renaming) is last[2].     *)
(***************************************************************************)
\* the halfspaces and regions a script builds in exactly n steps: -s / +s, then
\* ~a, a & b, a | b of what was built in fewer steps
RECURSIVE PyObjectsOfSize(_, _)
PyObjectsOfSize(surfs, n) ==
    IF n = 1 THEN
        UNION {{PyHalfspace_new_below(h), PyHalfspace_new_above(h)} : h \in DOMAIN surfs}
    ELSE
        {py_invert(a) : a \in PyObjectsOfSize(surfs, n - 1)}
        \cup UNION {UNION {{py_and(a, b), py_or(a, b)} :
                            a \in PyObjectsOfSize(surfs, k),
                            b \in PyObjectsOfSize(surfs, n - 1 - k)} : k \in 1..(n - 2)}
PyRegionsOf(surfs) ==
    {r \in UNION {PyObjectsOfSize(surfs, n) : n \in 1..MaxRegions} : IsPyRegion(r)}

ArcRegions == {SphereRegion, VoidRegion}
MaterialIds == {0, 101}
OptionalMaterialIds == {None, Some(101)}
CellNames == {"fuel", "void"}
OptionalCellNames == {None, Some("fuel")}
CellIdsOfCells == {1, 2}

CellMade(call, from, cell) ==
    /\ last' = <<call, from, cell>>
    /\ UNCHANGED <<api, surfaces, sphere_order, point, regions, universe, added>>

CellNewVoid ==
    /\ api = "py"
    /\ \E cell_id \in CellIdsOfCells, region \in ArcRegions :
          CellMade("new_void", region, Cell_new_void(cell_id, region))

CellNewWithMaterial ==
    /\ api = "py"
    /\ \E cell_id \in CellIdsOfCells, region \in ArcRegions, material_id \in MaterialIds :
          CellMade("new_with_material", region,
                   Cell_new_with_material(cell_id, region, material_id))

PyCellNew ==
    /\ api = "py"
    /\ \E i \in 1..Len(regions), cell_id \in CellIdsOfCells,
          material_id \in OptionalMaterialIds, name \in OptionalCellNames :
          CellMade("PyCell", i, PyCell_new(cell_id, regions[i], material_id, name, surfaces))

\* cell.with_name(name) of a Cell, cell.name = name of a PyCell
CellWithName ==
    /\ last[1] \in {"new_void", "new_with_material", "with_name"}
    /\ \E name \in CellNames : CellMade("with_name", last[3], Cell_with_name(last[3], name))

PyCellSetName ==
    /\ last[1] \in {"PyCell", "set_name"}
    /\ \E name \in CellNames : CellMade("set_name", last[3], PyCell_set_name(last[3], name))

InitCell ==
    /\ api = "py"
    /\ surfaces \in {TwoSlabPlanes, PlaneAndSphere, PlaneAndCylinder}
    /\ sphere_order \in IterationOrders(SphereIds(surfaces))
    /\ point = <<0, 0, 0>>
    /\ \E r \in PyRegionsOf(surfaces) : regions = <<r>>
    /\ last = <<"none">>
    /\ universe = Universe_new(0)
    /\ added = <<>>

NextCell ==
    \/ CellNewVoid
    \/ CellNewWithMaterial
    \/ PyCellNew
    \/ CellWithName
    \/ PyCellSetName

SpecCell == InitCell /\ [][NextCell]_vars

(***************************************************************************)
(* Regions whose leaves name surfaces by id, where an id need not be in    *)
(* the table the region is evaluated against.  The caller's region is      *)
(* regions[1], built in up to MaxRegions calls.                            *)
(***************************************************************************)
\* the ids a caller may put in a leaf: those of the table and one it does not hold
SurfaceIdInputs(surfs) == DOMAIN surfs \cup {Cardinality(DOMAIN surfs) + 1}
RECURSIVE RegionsOfSize(_, _)
RegionsOfSize(ids, n) ==
    IF n = 1 THEN
        {new_from_halfspace(<<side, id>>) : side \in {"Above", "Below"}, id \in ids}
    ELSE
        {complement(a) : a \in RegionsOfSize(ids, n - 1)}
        \cup UNION {UNION {{intersection(a, b), union(a, b)} :
                            a \in RegionsOfSize(ids, k),
                            b \in RegionsOfSize(ids, n - 1 - k)} : k \in 1..(n - 2)}

InitDangling ==
    /\ api = "core"
    /\ surfaces \in {TwoSlabPlanes, PlaneAndSphere}
    /\ sphere_order \in IterationOrders(SphereIds(surfaces))
    /\ point \in Points
    /\ \E n \in 1..MaxRegions :
          \E r \in RegionsOfSize(SurfaceIdInputs(surfaces), n) : regions = <<r>>
    /\ last = <<"none">>
    /\ universe = Universe_new(0)
    /\ added = <<>>

NextDangling ==
    \/ RegionContains
    \/ RegionBoundingBox

SpecDangling == InitDangling /\ [][NextDangling]_vars

(***************************************************************************)
(* The unary operators of a script: -s / +s on a surface, then -h, +h, ~h  *)
(* on a halfspace already built.  The result is appended to regions; last  *)
(* names the operator and the index of its operand.                        *)
(***************************************************************************)
Applied(op, i, result) ==
    /\ regions' = Append(regions, result)
    /\ last' = <<op, i>>
    /\ UNCHANGED <<api, surfaces, sphere_order, point, universe, added>>

PyHalfspaceNeg ==
    /\ api = "py" /\ Len(regions) < MaxRegions
    /\ \E i \in 1..Len(regions) :
          IsPyHalfspace(regions[i]) /\ Applied("neg", i, PyHalfspace_neg(regions[i]))

PyHalfspacePos ==
    /\ api = "py" /\ Len(regions) < MaxRegions
    /\ \E i \in 1..Len(regions) :
          IsPyHalfspace(regions[i]) /\ Applied("pos", i, PyHalfspace_pos(regions[i]))

PyHalfspaceInvert ==
    /\ api = "py" /\ Len(regions) < MaxRegions
    /\ \E i \in 1..Len(regions) :
          IsPyHalfspace(regions[i]) /\ Applied("invert", i, PyHalfspace_invert(regions[i]))

InitSign == InitWith({PlaneAndSphere, PlaneAndCylinder}, {<<0, 0, 0>>}) /\ api = "py"

NextSign ==
    \/ PySurfaceNegPos(MaxRegions)
    \/ PyHalfspaceNeg
    \/ PyHalfspacePos
    \/ PyHalfspaceInvert

SpecSign == InitSign /\ [][NextSign]_vars

(***************************************************************************)
(* Vocabulary of the properties: the same question asked of either API.    *)
(***************************************************************************)
\* the expression tree of a pool entry (a PyHalfspace stands for its leaf)
ExprOf(r) == IF "expr" \in DOMAIN r THEN r.expr ELSE <<"Halfspace", r>>
LeafIsAbove(a, leaf) == IF a = "core" THEN leaf[2][1] = "Above" ELSE leaf[2].is_above
LeafSurface(a, leaf, surfs) == IF a = "core" THEN surfs[leaf[2][2]] ELSE surfs[leaf[2].surface]

ContainsIn(a, r, pt, surfs) ==
    IF a = "core" THEN contains(r, pt, surfs) ELSE py_contains(r, pt, surfs)
BoxIn(a, r, surfs, order) ==
    IF a = "core" THEN bounding_box(r, surfs, order) ELSE py_bbox(r, surfs)
BoxOfExprIn(a, e, surfs, order) ==
    IF a = "core" THEN bounding_box_with_surfaces(e, surfs, order) ELSE py_bounding_box(e, surfs)
Lower(a, box) == IF a = "core" THEN box.lower_left_corner ELSE box.lower_left
Upper(a, box) == IF a = "core" THEN box.upper_right_corner ELSE box.upper_right

Contains(r) == ContainsIn(api, r, point, surfaces)
Box(r) == BoxIn(api, r, surfaces, sphere_order)
BoxOfExpr(e) == BoxOfExprIn(api, e, surfaces, sphere_order)
HS(side, id) ==
    IF api = "core" THEN new_from_halfspace(<<side, id>>)
    ELSE IF side = "Above" THEN PyHalfspace_new_above(id) ELSE PyHalfspace_new_below(id)
U(a, b) == IF api = "core" THEN union(a, b) ELSE py_or(a, b)
I(a, b) == IF api = "core" THEN intersection(a, b) ELSE py_and(a, b)
C(a) == IF api = "core" THEN complement(a) ELSE py_invert(a)

Pool == 1..Len(regions)
Asked(call) == last[1] = call
AskedRegion == regions[last[2]]
Answer == last[3]

\* The points of space in the region, by set algebra over the halfspaces' point sets
RECURSIVE RegionSet(_, _)
RegionSet(e, space) ==
    IF e[1] = "Halfspace" THEN
        {p \in space : IF LeafIsAbove(api, e)
                          THEN evaluate(LeafSurface(api, e, surfaces), p) > 0
                          ELSE evaluate(LeafSurface(api, e, surfaces), p) < 0}
    ELSE IF e[1] = "Union" THEN RegionSet(e[2], space) \cup RegionSet(e[3], space)
    ELSE IF e[1] = "Intersection" THEN RegionSet(e[2], space) \cap RegionSet(e[3], space)
    ELSE space \ RegionSet(e[2], space)

InRegionSet(r) == point \in RegionSet(ExprOf(r), {point})

InBox(pt, lower, upper) ==
    \A i \in 1..3 : FLe(lower[i], F(pt[i])) /\ FLe(F(pt[i]), upper[i])

Unbounded(lower, upper) ==
    \A i \in 1..3 : lower[i] = NEG_INFINITY /\ upper[i] = INFINITY
EmptySentinel(lower, upper) ==
    \A i \in 1..3 : lower[i] = INFINITY /\ upper[i] = NEG_INFINITY

OnSurface(id) == evaluate(surfaces[id], point) = 0

C3_BoxEnclosesRegion ==
    (Asked("contains") /\ Answer = TRUE) =>
        InBox(point, Lower(api, Box(AskedRegion)), Upper(api, Box(AskedRegion)))

(***************************************************************************)
(* C4: double negation: complement(complement(R)) contains exactly the     *)
(* points R contains.                                                      *)
(***************************************************************************)
C4_DoubleNegation ==
    Asked("contains") =>
        /\ Contains(C(C(AskedRegion))) = Answer
        /\ Contains(C(AskedRegion)) = ~Answer

C4_Witness ==
    /\ Asked("contains") /\ Answer = TRUE
    /\ ExprOf(AskedRegion)[1] = "Complement"
    /\ Contains(C(C(AskedRegion)))
    /\ ~Contains(C(AskedRegion))

(***************************************************************************)
(* C5: De Morgan: complement(union(A, B)) and                              *)
(* intersection(complement(A), complement(B)) contain the same points,     *)
(* for A the region a contains query was asked of and B any region built.  *)
(***************************************************************************)
C5_DeMorgan ==
    Asked("contains") =>
        \A j \in Pool :
            /\ Contains(C(U(AskedRegion, regions[j])))
                  = Contains(I(C(AskedRegion), C(regions[j])))
            /\ Contains(C(U(AskedRegion, regions[j]))) = (~Answer /\ ~Contains(regions[j]))

C5_Witness ==
    /\ Asked("contains") /\ Answer = FALSE
    /\ \E i, j \in Pool :
          /\ Contains(regions[i]) /\ ~Contains(regions[j])
          /\ AskedRegion = regions[j]
          /\ ~Contains(C(U(AskedRegion, regions[i])))
          /\ Contains(C(U(AskedRegion, regions[j])))

(***************************************************************************)
(* C6: union and intersection are commutative under contains: with the     *)
(* operands in either order they contain the same points, for A the region *)
(* a contains query was asked of and B any region built.                   *)
(***************************************************************************)
C6_Commutativity ==
    Asked("contains") =>
        \A j \in Pool :
            /\ Contains(U(AskedRegion, regions[j])) = Contains(U(regions[j], AskedRegion))
            /\ Contains(I(AskedRegion, regions[j])) = Contains(I(regions[j], AskedRegion))

C6_Witness ==
    /\ Asked("contains") /\ Answer = FALSE
    /\ \E j \in Pool :
          /\ Contains(regions[j])
          /\ Contains(U(AskedRegion, regions[j])) /\ Contains(U(regions[j], AskedRegion))
          /\ ~Contains(I(AskedRegion, regions[j])) /\ ~Contains(I(regions[j], AskedRegion))

(***************************************************************************)
(* C7: the combinators are pure: every call leaves the regions built       *)
(* before it in place and unchanged, so each gives the same contains and   *)
(* bounding_box results after the call as before it.                       *)
(***************************************************************************)
C7_CombinatorsArePure ==
    [][\A i \in 1..Len(regions) :
          /\ i <= Len(regions')
          /\ regions'[i] = regions[i]
          /\ ContainsIn(api', regions'[i], point', surfaces')
                = ContainsIn(api, regions[i], point, surfaces)
          /\ BoxIn(api', regions'[i], surfaces', sphere_order')
                = BoxIn(api, regions[i], surfaces, sphere_order)]_vars

C7_Witness ==
    /\ Len(regions) = 2
    /\ ExprOf(regions[2])[1] \in {"Union", "Intersection"}
    /\ ExprOf(regions[2])[2] = ExprOf(regions[1])
    /\ ExprOf(regions[2])[3] = ExprOf(regions[1])
    /\ Asked("contains") /\ last[2] = 1 /\ Answer = TRUE

(***************************************************************************)
(* The scenarios of the bounding-box tests, in units that make every       *)
(* coordinate an integer: the unit cube as six plane halfspaces, and the   *)
(* slab -2.1 < x < 2.1 inside the sphere of radius 4.2 (units of 0.1).     *)
(***************************************************************************)
CubeSurfaces ==
    (1 :> x_plane(0, 1, "None")) @@ (2 :> x_plane(1, 2, "None")) @@
    (3 :> y_plane(0, 3, "None")) @@ (4 :> y_plane(1, 4, "None")) @@
    (5 :> z_plane(0, 5, "None")) @@ (6 :> z_plane(1, 6, "None"))
CubeRegion ==
    intersection(intersection(intersection(intersection(intersection(
        new_from_halfspace(<<"Above", 1>>), new_from_halfspace(<<"Below", 2>>)),
        new_from_halfspace(<<"Above", 3>>)), new_from_halfspace(<<"Below", 4>>)),
        new_from_halfspace(<<"Above", 5>>)), new_from_halfspace(<<"Below", 6>>))
PyCubeRegion ==
    py_and(py_and(py_and(py_and(py_and(
        PyHalfspace_new_above(1), PyHalfspace_new_below(2)),
        PyHalfspace_new_above(3)), PyHalfspace_new_below(4)),
        PyHalfspace_new_above(5)), PyHalfspace_new_below(6))
SlabSurfaces ==
    (1 :> x_plane(21, 1, "None")) @@ (2 :> x_plane(-21, 2, "None")) @@
    (3 :> new_sphere(0, 0, 0, 42, 3, "None"))
SlabInSphere ==
    intersection(intersection(
        new_from_halfspace(<<"Above", 2>>), new_from_halfspace(<<"Below", 1>>)),
        new_from_halfspace(<<"Below", 3>>))
PySlabInSphere ==
    py_and(py_and(PyHalfspace_new_above(2), PyHalfspace_new_below(1)),
           PyHalfspace_new_below(3))

ScenarioBoxes ==
    /\ bounding_box(CubeRegion, CubeSurfaces, <<>>).lower_left_corner = <<F(0), F(0), F(0)>>
    /\ bounding_box(CubeRegion, CubeSurfaces, <<>>).upper_right_corner = <<F(1), F(1), F(1)>>
    /\ py_bbox(PyCubeRegion, CubeSurfaces).lower_left = <<F(0), F(0), F(0)>>
    /\ py_bbox(PyCubeRegion, CubeSurfaces).upper_right = <<F(1), F(1), F(1)>>
    /\ bounding_box(SlabInSphere, SlabSurfaces, <<3>>).lower_left_corner
          = <<F(-21), F(-42), F(-42)>>
    /\ bounding_box(SlabInSphere, SlabSurfaces, <<3>>).upper_right_corner
          = <<F(21), F(42), F(42)>>
    /\ py_bbox(PySlabInSphere, SlabSurfaces).lower_left = <<F(-21), F(-42), F(-42)>>
    /\ py_bbox(PySlabInSphere, SlabSurfaces).upper_right = <<F(21), F(42), F(42)>>

\* the operands' boxes of the region a bounding_box query was asked of
OperandBoxA == BoxOfExpr(ExprOf(AskedRegion)[2])
OperandBoxB == BoxOfExpr(ExprOf(AskedRegion)[3])
TightenedLower == [i \in 1..3 |-> FMax(Lower(api, OperandBoxA)[i], Lower(api, OperandBoxB)[i])]
TightenedUpper == [i \in 1..3 |-> FMin(Upper(api, OperandBoxA)[i], Upper(api, OperandBoxB)[i])]
LoosenedLower == [i \in 1..3 |-> FMin(Lower(api, OperandBoxA)[i], Lower(api, OperandBoxB)[i])]
LoosenedUpper == [i \in 1..3 |-> FMax(Upper(api, OperandBoxA)[i], Upper(api, OperandBoxB)[i])]
AskedBoxOf(op) == Asked("bounding_box") /\ ExprOf(AskedRegion)[1] = op

(***************************************************************************)
(* C8 as stated: the bounding box of Intersection(a, b) is, on each axis,  *)
(* lower = max(lower_a, lower_b) and upper = min(upper_a, upper_b) of the  *)
(* operands' boxes; the unit cube gives [0,0,0]-[1,1,1] and the slab in    *)
(* the sphere gives the plane bounds on x and the sphere's on y and z.     *)
(***************************************************************************)
C8_IntersectionBoxIsMaxMin ==
    /\ ScenarioBoxes
    /\ AskedBoxOf("Intersection") =>
          /\ Lower(api, Answer) = TightenedLower
          /\ Upper(api, Answer) = TightenedUpper

(***************************************************************************)
(* C8 as amended: whenever the per-axis max of the lower corners and min   *)
(* of the upper corners of the operands' boxes leaves lower <= upper on    *)
(* every axis, the bounding box of Intersection(a, b) is exactly that      *)
(* max/min box; the two scenarios give the boxes stated.  (An axis with    *)
(* lower > upper is the empty-box case, which follows its own rule.)       *)
(***************************************************************************)
C8_IntersectionBoxTightens ==
    /\ ScenarioBoxes
    /\ (AskedBoxOf("Intersection")
          /\ \A i \in 1..3 : FLe(TightenedLower[i], TightenedUpper[i]))
       => /\ Lower(api, Answer) = TightenedLower
          /\ Upper(api, Answer) = TightenedUpper

C8_Witness ==
    /\ AskedBoxOf("Intersection")
    /\ \E i \in 1..3 :
          /\ Lower(api, Answer)[i][1] = 0 /\ Upper(api, Answer)[i][1] = 0
          /\ FLt(Lower(api, Answer)[i], Upper(api, Answer)[i])
          /\ Lower(api, OperandBoxA)[i] # Lower(api, OperandBoxB)[i]
          /\ Upper(api, OperandBoxA)[i] # Upper(api, OperandBoxB)[i]

(***************************************************************************)
(* C9: the bounding box of Union(a, b) is, on each axis,                   *)
(* lower = min(lower_a, lower_b) and upper = max(upper_a, upper_b) of the  *)
(* operands' boxes.                                                        *)
(***************************************************************************)
C9_UnionBoxIsMinMax ==
    AskedBoxOf("Union") =>
        /\ Lower(api, Answer) = LoosenedLower
        /\ Upper(api, Answer) = LoosenedUpper

(***************************************************************************)
(* C10: the bounding box of Complement(r) is the fully unbounded box,      *)
(* -inf to +inf on all three axes, whatever r is.                          *)
(***************************************************************************)
C10_ComplementBoxIsUnbounded ==
    AskedBoxOf("Complement") => Unbounded(Lower(api, Answer), Upper(api, Answer))

(***************************************************************************)
(* C11: whenever the bounds of a region end with lower > upper on some     *)
(* axis, bounding_box returns the empty-box sentinel, lower = +inf and     *)
(* upper = -inf on all three axes: no box returned is inverted on an axis  *)
(* unless it is the sentinel, and an Intersection whose operands' boxes    *)
(* do not overlap on some axis gets the sentinel.                          *)
(***************************************************************************)
C11_EmptyBoxIsSentinel ==
    /\ (Asked("bounding_box")
          /\ \E i \in 1..3 : FGt(Lower(api, Answer)[i], Upper(api, Answer)[i]))
       => EmptySentinel(Lower(api, Answer), Upper(api, Answer))
    /\ (AskedBoxOf("Intersection")
          /\ \E i \in 1..3 : FGt(TightenedLower[i], TightenedUpper[i]))
       => EmptySentinel(Lower(api, Answer), Upper(api, Answer))

\* the surface of the single halfspace a bounding_box query was asked of
AskedLeaf == ExprOf(AskedRegion)
AskedSurface == LeafSurface(api, AskedLeaf, surfaces).kind
AskedAbove == LeafIsAbove(api, AskedLeaf)
AskedBoxOfLeaf(tag) == AskedBoxOf("Halfspace") /\ AskedSurface.tag = tag
IsAxisAligned(k) ==
    <<k.a, k.b, k.c>> \in {<<1, 0, 0>>, <<0, 1, 0>>, <<0, 0, 1>>}
AxisOf(k) == IF k.a = 1 THEN 1 ELSE IF k.b = 1 THEN 2 ELSE 3

(***************************************************************************)
(* C12: a single halfspace of an axis-aligned plane with offset d          *)
(* constrains exactly one axis: Above gives lower = d on the plane's axis, *)
(* Below gives upper = d on it, and every other bound stays -inf / +inf.   *)
(***************************************************************************)
C12_AxisPlaneBoundsOneAxis ==
    (AskedBoxOfLeaf("Plane") /\ IsAxisAligned(AskedSurface)) =>
        \A i \in 1..3 :
            /\ Lower(api, Answer)[i] =
                  IF i = AxisOf(AskedSurface) /\ AskedAbove
                  THEN F(AskedSurface.d) ELSE NEG_INFINITY
            /\ Upper(api, Answer)[i] =
                  IF i = AxisOf(AskedSurface) /\ ~AskedAbove
                  THEN F(AskedSurface.d) ELSE INFINITY

(***************************************************************************)
(* C13: a single halfspace of a sphere with centre c and radius r has      *)
(* bounding box lower = c - r, upper = c + r on all three axes, for the    *)
(* Below and for the Above halfspace alike.                                *)
(***************************************************************************)
C13_SphereLeafBox ==
    AskedBoxOfLeaf("Sphere") =>
        LET k == AskedSurface IN
        /\ Lower(api, Answer) = <<F(k.x0 - k.radius), F(k.y0 - k.radius), F(k.z0 - k.radius)>>
        /\ Upper(api, Answer) = <<F(k.x0 + k.radius), F(k.y0 + k.radius), F(k.z0 + k.radius)>>

(***************************************************************************)
(* C14: a halfspace, of either sign, of a cylinder or of a plane whose     *)
(* coefficients (a, b, c) are not exactly (1,0,0), (0,1,0) or (0,0,1)      *)
(* contributes no constraint: its bounding box is -inf / +inf on all       *)
(* three axes.                                                             *)
(***************************************************************************)
C14_UnboxedLeafIsUnbounded ==
    (\/ AskedBoxOfLeaf("Cylinder")
     \/ AskedBoxOfLeaf("Plane") /\ ~IsAxisAligned(AskedSurface))
        => Unbounded(Lower(api, Answer), Upper(api, Answer))

(***************************************************************************)
(* C15: every bounding box returned has centre and width derived from its  *)
(* corners: center[i] is the midpoint of lower[i] and upper[i], and        *)
(* width[i] = upper[i] - lower[i].                                         *)
(***************************************************************************)
C15_CenterAndWidthDerived ==
    Asked("bounding_box") =>
        \A i \in 1..3 :
            /\ Answer.center[i] = FHalf(FAdd(Lower(api, Answer)[i], Upper(api, Answer)[i]))
            /\ Answer.width[i] = FSub(Upper(api, Answer)[i], Lower(api, Answer)[i])

\* the cells of the universe, and those that contain a point
Cells == {universe.cells[k] : k \in DOMAIN universe.cells}
CellsContaining(pt) == {c \in Cells : Cell_contains(c, pt)}
CellOrders == IterationOrders(DOMAIN universe.cells)

(***************************************************************************)
(* C16: find_cell(p) returns a cell of the universe that contains p        *)
(* whenever one exists, returns none exactly when no cell contains p,      *)
(* never returns a cell that does not contain p, and leaves the universe   *)
(* as it was; this for every order in which the cell map may be iterated.  *)
(***************************************************************************)
C16_FindCellFindsAContainingCell ==
    last[1] = "find_cell" =>
        LET containing == CellsContaining(last[2]) IN
        /\ universe = last[4]
        /\ last[3].some => last[3].value \in containing
        /\ ~last[3].some <=> containing = {}

C16_Witness ==
    /\ last[1] = "find_cell" /\ last[3].some
    /\ Cardinality(Cells) = 2
    /\ Cardinality(CellsContaining(last[2])) = 1
    /\ \E order \in CellOrders : ~Cell_contains(universe.cells[order[1]], last[2])

\* the cell most recently passed to add_cell with the id, if any
AddsOf(cell_id) == {n \in 1..Len(added) : added[n].cell_id = cell_id}
LastAdded(cell_id) ==
    IF AddsOf(cell_id) = {} THEN None
    ELSE Some(added[CHOOSE n \in AddsOf(cell_id) : \A m \in AddsOf(cell_id) : m <= n])

(***************************************************************************)
(* C17: add_cell is insert-or-replace keyed by cell id: get_cell(id) is    *)
(* the cell most recently added with that id, none if none was; every      *)
(* stored cell's key is its cell_id; the number of stored cells is the     *)
(* number of distinct ids added; cells under other ids are untouched by    *)
(* an add (each still is the last one added under its own id).             *)
(***************************************************************************)
C17_AddCellInsertsOrReplaces ==
    /\ \A cell_id \in 1..(MaxCellId + 1) : get_cell(universe, cell_id) = LastAdded(cell_id)
    /\ \A k \in DOMAIN universe.cells : universe.cells[k].cell_id = k
    /\ Cardinality(DOMAIN universe.cells)
          = Cardinality({added[n].cell_id : n \in 1..Len(added)})
    /\ last[1] = "get_cell" => last[3] = LastAdded(last[2])

C17_Witness ==
    /\ last[1] = "get_cell" /\ last[3].some
    /\ Len(added) = 2
    /\ added[1].cell_id = added[2].cell_id
    /\ added[1] # added[2]
    /\ last[3].value = added[2]

\* the universe holds exactly a material cell of the sphere's inside and a
\* void cell of its complement
IsPartition ==
    /\ Cardinality(DOMAIN universe.cells) = 2
    /\ \E f, v \in DOMAIN universe.cells :
          /\ universe.cells[f].region = SphereRegion
          /\ universe.cells[f].fill.tag = "Material"
          /\ universe.cells[v] = Cell_new_void(v, VoidRegion)
StrictlyInside(pt) == evaluate(UnitSphere, pt) < 0

SameLetter(c, d) ==
    \/ c = d
    \/ \E k \in 1..Len(LowerCaseLetters) :
          {c, d} = {LowerCaseLetters[k], UpperCaseLetters[k]}
EqualIgnoringCase(s, t) ==
    Len(s) = Len(t) /\ \A n \in 1..Len(s) : SameLetter(s[n], t[n])
ConstructedFromText == last[1] \in {"new_str", "new_py"} /\ last[3].some

(***************************************************************************)
(* C18: constructing a surface from boundary-type text accepts exactly the *)
(* texts equal, case-insensitively, to "transmission" or "vacuum", giving  *)
(* Transmission and Vacuum; for any other text the call fails with the     *)
(* validation error and yields no surface, never the default.              *)
(***************************************************************************)
C18_BoundaryTextIsValidated ==
    ConstructedFromText =>
        LET text == last[3].value
            result == last[4]
        IN  /\ result.ok <=> \/ EqualIgnoringCase(text, Str_transmission)
                            \/ EqualIgnoringCase(text, Str_vacuum)
            /\ EqualIgnoringCase(text, Str_transmission) =>
                  result.ok /\ result.value.boundary_type = "Transmission"
            /\ EqualIgnoringCase(text, Str_vacuum) =>
                  result.ok /\ result.value.boundary_type = "Vacuum"
            /\ ~result.ok =>
                  /\ DOMAIN result = {"ok", "error"}
                  /\ result.error = Str_boundary_type_error

C18_Witness ==
    /\ ConstructedFromText
    /\ last[1] = "new_str"
    /\ last[3].value # to_lowercase(last[3].value)
    /\ last[4].ok /\ last[4].value.boundary_type = "Transmission"

(***************************************************************************)
(* C19: every surface constructor, typed or text-accepting, called with    *)
(* the boundary type omitted produces a surface whose boundary_type is     *)
(* Vacuum.                                                                 *)
(***************************************************************************)
C19_OmittedBoundaryIsVacuum ==
    /\ (last[1] = "new" /\ last[3] = "None") => last[4].boundary_type = "Vacuum"
    /\ (last[1] \in {"new_str", "new_py"} /\ ~last[3].some) =>
          last[4].ok /\ last[4].value.boundary_type = "Vacuum"

C19_Witness ==
    /\ last[1] = "new_py" /\ last[2] = "Sphere" /\ ~last[3].some
    /\ last[4].ok /\ last[4].value.boundary_type = "Vacuum"

\* the call just made set a boundary type: the surface, the type it now has to
\* have, the surfaces before the call
BoundarySet ==
    \/ last[1] = "set_boundary_type"
    \/ last[1] = "py_set_boundary_type" /\ last[3].ok
SetSurfaceId == last[2]
SurfacesBefore == last[4]
RequestedBoundary ==
    IF last[1] = "set_boundary_type" THEN last[3]
    ELSE IF EqualIgnoringCase(last[5], Str_transmission) THEN "Transmission" ELSE "Vacuum"
SameBox(a, b) == Lower(api, a) = Lower(api, b) /\ Upper(api, a) = Upper(api, b)

(***************************************************************************)
(* C21: set_boundary_type(b) changes only the tag: afterwards              *)
(* boundary_type() is b; the surface's id and kind (so its geometric       *)
(* parameters) and every other surface are as before; evaluate(p) of every *)
(* surface, and contains(p) and bounding_box() of every region built over  *)
(* the surfaces, return what they returned before, at every point p.       *)
(***************************************************************************)
C21_SetBoundaryTypeChangesOnlyTheTag ==
    BoundarySet =>
        /\ Surface_boundary_type(surfaces[SetSurfaceId]) = RequestedBoundary
        /\ DOMAIN surfaces = DOMAIN SurfacesBefore
        /\ \A id \in DOMAIN surfaces :
              /\ surfaces[id].surface_id = SurfacesBefore[id].surface_id
              /\ surfaces[id].kind = SurfacesBefore[id].kind
              /\ id # SetSurfaceId => surfaces[id] = SurfacesBefore[id]
              /\ \A p \in Points : evaluate(surfaces[id], p) = evaluate(SurfacesBefore[id], p)
        /\ \A i \in Pool :
              /\ \A p \in Points :
                    ContainsIn(api, regions[i], p, surfaces)
                        = ContainsIn(api, regions[i], p, SurfacesBefore)
              /\ SameBox(BoxIn(api, regions[i], surfaces, sphere_order),
                         BoxIn(api, regions[i], SurfacesBefore, sphere_order))

C21_Witness ==
    /\ BoundarySet
    /\ Surface_boundary_type(SurfacesBefore[SetSurfaceId]) = "Vacuum"
    /\ Surface_boundary_type(surfaces[SetSurfaceId]) = "Transmission"
    /\ \E i \in Pool :
          /\ ExprOf(regions[i])[1] = "Intersection"
          /\ \E p, q \in Points :
                /\ ContainsIn(api, regions[i], p, surfaces)
                /\ ~ContainsIn(api, regions[i], q, surfaces)

\* the cell just built, and what it was built from
BuiltCell == last[3]
BuiltFromRegion == last[1] \in {"new_void", "new_with_material"}
BuiltFromPyRegion == last[1] = "PyCell"
SourceRegion == IF BuiltFromPyRegion THEN regions[last[2]] ELSE last[2]
\* the converted tree has the operator of the scripting tree at every node, and
\* at every leaf the same side and the same surface
RECURSIVE NodeForNode(_, _)
NodeForNode(pyexpr, expr) ==
    /\ expr[1] = pyexpr[1]
    /\ Len(expr) = Len(pyexpr)
    /\ IF pyexpr[1] = "Halfspace"
       THEN /\ (expr[2][1] = "Above") = pyexpr[2].is_above
            /\ expr[2][1] \in {"Above", "Below"}
            /\ expr[2][2].kind = surfaces[pyexpr[2].surface].kind
       ELSE \A n \in 2..Len(pyexpr) : NodeForNode(pyexpr[n], expr[n])

(***************************************************************************)
(* C22: Cell.contains(p) equals contains(p) of the region the cell was     *)
(* constructed from, at every point p; for a cell built in a script the    *)
(* stored region is the PyRegion's tree converted node for node, and the   *)
(* cell's contains equals the PyRegion's contains.                         *)
(***************************************************************************)
C22_CellContainsIsRegionContains ==
    /\ BuiltFromRegion =>
          /\ BuiltCell.region = SourceRegion
          /\ \A p \in Points : Cell_contains(BuiltCell, p) = arc_contains(SourceRegion, p)
    /\ BuiltFromPyRegion =>
          /\ NodeForNode(SourceRegion.expr, BuiltCell.region.expr)
          /\ \A p \in Points :
                PyCell_contains(BuiltCell, p) = py_contains(SourceRegion, p, surfaces)

C22_Witness ==
    /\ BuiltFromPyRegion
    /\ SourceRegion.expr[1] = "Complement"
    /\ \E p, q \in Points : PyCell_contains(BuiltCell, p) /\ ~PyCell_contains(BuiltCell, q)

(***************************************************************************)
(* C23: Cell.bounding_box() has the lower and upper corners of             *)
(* bounding_box() of the region the cell was constructed from: for a cell  *)
(* built in a script, the plane-collection-plus-sphere pass over the       *)
(* converted tree agrees with the tree fold of the PyRegion.               *)
(***************************************************************************)
C23_CellBoxIsRegionBox ==
    BuiltFromPyRegion =>
        LET cell_box == PyCell_bounding_box(BuiltCell, surfaces, sphere_order)
            region_box == py_bbox(SourceRegion, surfaces)
        IN  /\ cell_box.lower_left = region_box.lower_left
            /\ cell_box.upper_right = region_box.upper_right

ListedContaining == {n \in 1..Len(added) : Cell_contains(added[n], last[2])}

(***************************************************************************)
(* C24: Geometry.find_cell(p) returns the containing cell with the         *)
(* smallest list index (with overlapping cells the earlier-listed one      *)
(* wins), and none when no listed cell contains p.                         *)
(***************************************************************************)
C24_GeometryFindsFirstListed ==
    last[1] = "find_cell" =>
        IF ListedContaining = {} THEN last[3] = None
        ELSE /\ last[3].some
             /\ \E n \in ListedContaining :
                   /\ \A m \in ListedContaining : n <= m
                   /\ last[3].value = added[n]

C24_Witness ==
    /\ last[1] = "find_cell"
    /\ Cardinality(ListedContaining) = 2
    /\ added[1] # added[2]
    /\ added[1].region # added[2].region
    /\ last[3] = Some(added[1])

\* the surface ids at the leaves of a core tree
RECURSIVE ReferencedIds(_)
ReferencedIds(e) ==
    IF e[1] = "Halfspace" THEN {e[2][2]}
    ELSE IF e[1] = "Complement" THEN ReferencedIds(e[2])
    ELSE ReferencedIds(e[2]) \cup ReferencedIds(e[3])
\* the tables holding at least the surfaces a tree references, up to the one in use
TablesReferencedBy(e) ==
    {[id \in ids |-> surfaces[id]] :
        ids \in {S \in SUBSET DOMAIN surfaces : ReferencedIds(e) \subseteq S}}

(***************************************************************************)
(* C26: in the core implementation the bounding box of a region depends    *)
(* only on the surfaces its tree references: the box computed over any     *)
(* table holding the referenced surfaces, with or without further          *)
(* surfaces, and in any iteration order of that table, is the same.        *)
(***************************************************************************)
C26_BoxDependsOnReferencedSurfacesOnly ==
    (api = "core" /\ Asked("bounding_box")) =>
        \A table \in TablesReferencedBy(ExprOf(AskedRegion)) :
            \A order \in IterationOrders(SphereIds(table)) :
                SameBox(bounding_box(AskedRegion, table, order), Answer)

\* a halfspace leaf whose surface id the table in use does not hold
IsDanglingLeaf(e) == e[1] = "Halfspace" /\ e[2][2] \notin DOMAIN surfaces

(***************************************************************************)
(* C27: in the core implementation a halfspace leaf whose surface id is    *)
(* absent from the surface table contains no point, Above and Below alike, *)
(* and the query returns a boolean rather than failing; the Complement of  *)
(* such a leaf contains every point and an Intersection with such a leaf   *)
(* contains none.                                                          *)
(***************************************************************************)
C27_DanglingLeafContainsNothing ==
    (api = "core" /\ Asked("contains")) =>
        LET e == ExprOf(AskedRegion) IN
        /\ Answer \in BOOLEAN
        /\ IsDanglingLeaf(e) => Answer = FALSE
        /\ (e[1] = "Complement" /\ IsDanglingLeaf(e[2])) => Answer = TRUE
        /\ (e[1] = "Intersection" /\ (IsDanglingLeaf(e[2]) \/ IsDanglingLeaf(e[3])))
              => Answer = FALSE

C27_Witness ==
    /\ api = "core" /\ Asked("contains")
    /\ LET e == ExprOf(AskedRegion) IN
       /\ e[1] = "Intersection"
       /\ IsDanglingLeaf(e[3]) /\ e[3][2][1] = "Below"
       /\ ~IsDanglingLeaf(e[2])
       /\ contains([expr |-> e[2]], point, surfaces)
       /\ Answer = FALSE

\* the operand and the result of the unary operator just applied
Operand == regions[last[2]]
Result == regions[Len(regions)]

(***************************************************************************)
(* C28: on a halfspace the unary operators select a side rather than flip  *)
(* it: -h is the Below halfspace of h's surface and +h the Above           *)
(* halfspace, whatever side h was, so applying either twice gives the same *)
(* as applying it once (-(-h) is -h, not h); only ~h negates containment.  *)
(***************************************************************************)
C28_UnarySignSelectsSide ==
    /\ last[1] \in {"neg", "pos"} =>
          /\ Result = (IF last[1] = "neg" THEN PyHalfspace_new_below(Operand.surface)
                       ELSE PyHalfspace_new_above(Operand.surface))
          /\ PyHalfspace_neg(PyHalfspace_neg(Operand)) = PyHalfspace_neg(Operand)
          /\ PyHalfspace_pos(PyHalfspace_pos(Operand)) = PyHalfspace_pos(Operand)
          /\ (last[1] = "neg" /\ ~Operand.is_above) => Result = Operand
          /\ (last[1] = "pos" /\ Operand.is_above) => Result = Operand
    /\ last[1] = "invert" =>
          \A pt \in Points :
              py_contains(Result, pt, surfaces) = ~py_contains(Operand, pt, surfaces)

\* -h applied to a halfspace that is already the Below side
C28_Witness ==
    /\ last[1] = "neg"
    /\ ~Operand.is_above
    /\ Result = Operand
    /\ last[2] > 1
    /\ \E pt \in Points : py_contains(Result, pt, surfaces)

\* the universe the cells added so far make when they are added in another order
RECURSIVE AddedIn(_, _)
AddedIn(perm, n) ==
    IF n = 0 THEN Universe_new(universe.universe_id)
    ELSE add_cell(AddedIn(perm, n - 1), added[perm[n]])
InsertionOrders == IterationOrders(1..Len(added))
PairwiseDisjoint ==
    \A pt \in ShellPoints : Cardinality(CellsContaining(pt)) <= 1
\* every insertion order of the cells leaves the same map behind
SameMapInEveryInsertionOrder ==
    \A perm \in InsertionOrders : AddedIn(perm, Len(added)).cells = universe.cells
\* what find_cell may answer for the point asked about, over every iteration
\* order of that map
PossibleAnswers == {find_cell(universe, last[2], order) : order \in CellOrders}

(***************************************************************************)
(* C29: when the cells of a Universe are pairwise disjoint, find_cell(p)   *)
(* returns the same cell for every iteration order of the cell map and     *)
(* every insertion order of the cells; the answer can differ between       *)
(* orders only for a point that two or more cells contain.                 *)
(***************************************************************************)
C29_DisjointCellsMakeFindCellDeterministic ==
    last[1] = "find_cell" =>
        LET answers == PossibleAnswers IN
        /\ SameMapInEveryInsertionOrder
        /\ PairwiseDisjoint => answers = {last[3]}
        /\ answers # {last[3]} => Cardinality(CellsContaining(last[2])) >= 2

C29_Witness ==
    /\ last[1] = "find_cell"
    /\ Cells = {FuelCell, ModeratorCell, VoidCell}
    /\ PairwiseDisjoint
    /\ last[3] = Some(ModeratorCell)
    /\ last[4][1] # ModeratorCell.cell_id
    /\ added[1] = VoidCell

\* on the sphere: the surface function is zero at the point
OnSphere(s, pt) == evaluate(s, pt) = 0

====
